---------------------------- MODULE Spec2Model ----------------------------
(***************************************************************************)
(* The connection runtime of zbus (src/zbus/src/connection.rs): the serial *)
(* counter and the send path, the message receiver task with its broadcast *)
(* and error channels, call_method_raw, and the ordered callback scopes.   *)
(***************************************************************************)
EXTENDS Integers, Sequences, FiniteSets, TLC

(***************************************************************************)
(* Bounds of the model.                                                    *)
(***************************************************************************)
\* assign_serial_num calls explored on one connection
MaxAssign == 4
\* messages read from the socket
MaxRecv == 4
\* capacity of the broadcast channel (Connection::set_max_queued; the
\* default is DEFAULT_MAX_QUEUED)
MaxQueued == 2
\* signal handlers registered in one scope
MaxHandlers == 2
MaxNameCalls == 4
MaxFds == 1
\* ready() calls explored on one property cache
MaxReady == 2

Tasks == {"t1", "t2"}
\* the connection's own scope and the scope of a new_scope handle
Scopes == {"s1", "s2"}
\* the connection handle and the handle new_scope returns
Handles == {"h1", "h2"}
\* broadcast receivers: the stream of each task's call_method_raw, one
\* MessageStream held by the user, the stream of each scope's task, and
\* the SignalStream of the property cache ("ps"), and the stream of the
\* object server's dispatch task ("os")
Receivers == Tasks \cup {"u"} \cup Scopes \cup {"ps"} \cup {"os"}

None == [some |-> FALSE, v |-> 0]
Some(x) == [some |-> TRUE, v |-> x]

VARIABLES
    serial,     \* ConnectionInner::serial, the next serial to hand out
    assigned,   \* every assign_serial_num call so far: task, returned value,
                \* whether the header had no serial before the call
    out,        \* the raw connection's send queue: serials of enqueued messages
    wire,       \* serials of the messages flushed to the socket
    pc,         \* each task's position in the operation it runs
    op,         \* the operation each task runs
    hdr,        \* the serial_num of the task's message header (None or Some)
    ret,        \* the local `serial` of send_message / dispatch_call
    res,        \* the result call_method_raw returned to the task
    sock,       \* the socket: "open", or "closed" by the peer
    inbox,      \* the messages try_receive_message returned, in order; a
                \* message's index is its recv_position
    rxpc,       \* MessageReceiverTask::receive_msg: where the task stands
    rxerr,      \* the error receive_msg is about to report
    bq,         \* the broadcast channel: recv_positions of the messages
                \* broadcast so far (a receiver's queue is the part after pos)
    errq,       \* the error channel, bounded(1)
    active,     \* which broadcast receivers are active
    since,      \* the position in bq at which each receiver was activated
    pos,        \* how many entries of bq each receiver has taken or skipped
    uGot,       \* the recv_positions the user's MessageStream has yielded
    hscope,     \* the scope of the handle new_scope returned ("none" before)
    alive,      \* whether a Connection handle still refers to the scope
    task,       \* OrderedCallbacks::task of each scope
    handlers,   \* OrderedCallbacks::handlers of each scope, in slot order
    nextKey,    \* the next SignalHandlerKey of each scope's slot map
    replies,    \* OrderedCallbacks::replies of each scope
    cur,        \* the recv_position of the message each scope task took last
    futs,       \* the futures each scope task has started and not completed
    tscope,     \* the scope a task's dispatch_call went through
    regPos,     \* the position of that scope's stream when the reply
                \* callback was registered
    cb,         \* the recv_position of the message the task's reply callback
                \* was started with (0: not started)
    stream_state,     \* the SignalStream: "none", "live"
    src_bus_name,     \* SignalStream::src_bus_name ("" for None)
    src_query,        \* SignalStream::src_query (None or Some(serial))
    src_unique_name,  \* SignalStream::src_unique_name ("" for None)
    sig_member,       \* SignalStream::member ("" for None)
    polled,           \* how many messages the SignalStream has taken
    taken,            \* the messages the SignalStream has taken, in order
    sig_last_seq,     \* SignalStream::last_seq (0: MessageSequence::default())
    orderings,        \* the ordering of each item the SignalStream yielded
    none_before,      \* the latest NoneBefore of poll_next_before: the
                      \* bound asked for and last_seq at that moment
    yielded,          \* what the SignalStream has yielded: each message with
                      \* src_unique_name as it was when filter returned
    cache_cfg,        \* ProxyInner::property_cache: "unbuilt" before the
                      \* proxy exists, then "yes" (Some) or "no" (None)
    cache_task,       \* the task of get_property_cache: "none" while the
                      \* OnceCell is empty, then where the task stands
    values,           \* PropertiesCache::values: for each name whether it
                      \* has an entry and the entry's value (0 for None)
    listener,         \* the EventListener of the PropertyStream of each name
    ready_ch,         \* the bounded(1) channel behind PropertiesCache::ready
    ready_closed,     \* whether that channel is closed
    ready_ret,        \* what the last ready() call returned
    last_seq,         \* SignalStream::last_seq of the cache's signal stream
    right_done,       \* whether the join has yielded the GetAll reply
    applied,          \* the recv_positions of the messages the cache task
                      \* has applied, in the order it applied them
    prop_stream,      \* the PropertyStream: "none" before it is created,
                      \* "live", "polled" inside poll_next once its event
                      \* has fired, "ended" once it has returned None
    prop_name,        \* PropertyStream::name
    items,            \* how many PropertyChanged items the stream yielded
    created_at,       \* how many messages had been received when
                      \* receive_property_changed returned
    yielded_at,       \* how many messages the cache task had applied when
                      \* the stream was created or last yielded an item
    lock,             \* PropertiesCache::values, the RwLock: "free", "read"
                      \* (a Wrapper holds a read guard), "write" (get_raw
                      \* holds the write guard) or "poisoned"
    get_pc,           \* PropertyChanged::get_raw: where the call stands
    got,              \* the value the Wrapper get_raw returned derefs to
    signal_matches,   \* ConnectionInner::signal_matches: the reference count
                      \* of each match expression, Vacant without an entry
    match_lock,       \* the holder of the signal_matches mutex, or "none"
    upc,              \* where each user of a match expression stands
    uexpr,            \* the expression each user subscribed to
    bus_rules,        \* the match rules the bus holds for this connection
    add_sent,         \* the AddMatch calls sent, per expression
    add_ok,           \* the AddMatch calls the bus accepted, per expression
    rm_sent,          \* the RemoveMatch calls sent, per expression
    registered_names, \* ConnectionInner::registered_names
    names_lock,       \* the holder of the registered_names mutex, or "none"
    npc,              \* where each caller of request_name / release_name
                      \* stands
    nname,            \* the name of the caller's call
    bus_owner,        \* who owns each name at the bus: "none", "self" (this
                      \* connection) or "other"
    name_log,         \* the request_name / release_name calls that returned,
                      \* in order: operation, name, result, and whether
                      \* the bus was called
    bus_conn,         \* ConnectionInner::bus_conn
    conn_state,       \* Connection::new: "authenticated" before it runs,
                      \* "helloing" during hello_bus, "ready" once it has
                      \* returned the connection, "failed" once it has
                      \* returned an error
    unique_name,      \* ConnectionInner::unique_name, "" while unset
    unique_name_sets, \* how many times unique_name.set was called
    os_cell,          \* ConnectionInner::object_server: "unset" or "set"
    os_task,          \* ConnectionInner::object_server_dispatch_task:
                      \* "none", "running", or "ended"
    os_lock,          \* the RwLock of the ObjectServer, its writer side:
                      \* "none", "waiting" (write().await pending) or "held"
    os_readers,       \* the recv_positions of the messages whose dispatch
                      \* task holds a read guard
    spawned,          \* the recv_positions of the messages whose dispatch
                      \* task was spawned and awaits the read guard
    dispatched,       \* the recv_positions of the messages for which
                      \* dispatch_message has run, in order
    request_sent_at,  \* how many messages had been received at each
                      \* RequestName call, in order
    cap_unix_fd,      \* ConnectionInner::cap_unix_fd: whether fd-passing was
                      \* negotiated
    fds,              \* how many file descriptors the task's message carries
    dest_kind,        \* ProxyInner::destination: "none" before the proxy is
                      \* built, then "wellknown" or "unique"
    dest_name_watcher, \* ProxyInnerStatic::dest_name_watcher ("" while unset)
    watcher_by,       \* the destination_unique_name call that set it
    proxy_dropped,    \* whether ProxyInnerStatic was dropped
    dpc,              \* where each destination_unique_name call stands
    ready_log,        \* what each ready() call returned, and from where
    hpc,              \* where each add/remove_signal_handler caller stands
    hcall,            \* the handle, expression and key of the caller's handler
    spc               \* where each receive_signals call stands

connVars == <<serial, assigned, out, wire>>
taskVars == <<pc, op, hdr, ret, res>>
rxVars == <<sock, inbox, rxpc, rxerr, bq, errq>>
rcvVars == <<active, since, pos, uGot>>
scopeVars == <<hscope, alive, task, handlers, nextKey, replies, cur, futs,
               tscope, regPos, cb>>
sigVars == <<stream_state, src_bus_name, src_query, src_unique_name,
             sig_member, polled, taken, yielded, sig_last_seq, orderings,
             none_before>>
cacheVars == <<cache_cfg, cache_task, values, listener, ready_ch, ready_closed,
               ready_ret, last_seq, right_done, applied>>
propVars == <<prop_stream, prop_name, items, created_at, yielded_at, lock,
              get_pc, got>>
matchVars == <<signal_matches, match_lock, upc, uexpr, bus_rules, add_sent,
               add_ok, rm_sent>>
nameVars == <<registered_names, names_lock, npc, nname, bus_owner, name_log>>
newVars == <<bus_conn, conn_state, unique_name, unique_name_sets>>
osVars == <<os_cell, os_task, os_lock, os_readers, spawned, dispatched,
            request_sent_at>>
fdVars == <<cap_unix_fd, fds>>
watchVars == <<dest_kind, dest_name_watcher, watcher_by, proxy_dropped, dpc>>
handVars == <<hpc, hcall>>
subVars == <<spc>>
moreVars == <<ready_log, handVars, subVars>>
tailVars == <<watchVars, moreVars>>
lateVars == <<newVars, osVars, fdVars, tailVars>>
proxyVars == <<sigVars, cacheVars, propVars, matchVars, nameVars, lateVars>>
coreVars == <<connVars, taskVars, rxVars, rcvVars, scopeVars>>
vars == <<serial, assigned, out, wire, pc, op, hdr, ret, res,
          sock, inbox, rxpc, rxerr, bq, errq, active, since, pos, uGot,
          hscope, alive, task, handlers, nextKey, replies, cur, futs,
          tscope, regPos, cb, proxyVars>>

(***************************************************************************)
(* Serial allocation.                                                      *)
(***************************************************************************)
\* AtomicU32::fetch_add(1, SeqCst): the counter after the call. The counter
\* wraps at 2^32, which is beyond the MaxAssign calls explored here (and
\* beyond the integers of the model checker), so no modulus is taken.
fetch_add_stuck(s) == s
fetch_add_by_two(s) == s + 2
fetch_add(s) == s + 1

\* MessagePrimaryHeader::serial_num_or_init as assign_serial_num uses it:
\* the header's serial after the call, given the counter's current value
serial_num_always_init(h, s) == Some(s)
serial_num_or_init(h, s) == IF h.some THEN h ELSE Some(s)

\* the counter after assign_serial_num: next_serial runs only in the
\* initialiser, so only when the header had no serial
next_serial(h, s) == IF h.some THEN s ELSE fetch_add(s)

\* assign_serial_num on task t's message, as one atomic step
AssignStep(t) ==
    /\ Len(assigned) < MaxAssign
    /\ hdr' = [hdr EXCEPT ![t] = serial_num_or_init(hdr[t], serial)]
    /\ serial' = next_serial(hdr[t], serial)
    /\ assigned' = Append(assigned,
                      [task |-> t,
                       val |-> serial_num_or_init(hdr[t], serial).v,
                       fresh |-> ~hdr[t].some])

\* a caller builds a message (Message::method, Message::signal, ...): no serial
NewMessage(t) ==
    /\ pc[t] = "idle"
    /\ pc' = [pc EXCEPT ![t] = "built"]
    /\ hdr' = [hdr EXCEPT ![t] = None]
    /\ UNCHANGED <<connVars, op, ret, res, rxVars, rcvVars, scopeVars, proxyVars>>

\* Connection::assign_serial_num called by the user on a built message
assign_serial_num(t) ==
    /\ pc[t] = "built"
    /\ AssignStep(t)
    /\ UNCHANGED <<out, wire, pc, op, ret, res, rxVars, rcvVars, scopeVars, proxyVars>>

\* Connection::send_message, first part: assign_serial_num(&mut msg). It is
\* called by the user on a built message, or by call_method_raw once its
\* stream exists.
send_message(t) ==
    /\ pc[t] \in {"built", "subscribed"}
    /\ AssignStep(t)
    /\ pc' = [pc EXCEPT ![t] = "assigned"]
    /\ op' = [op EXCEPT ![t] = IF pc[t] = "built" THEN "send" ELSE @]
    /\ ret' = [ret EXCEPT ![t] = serial_num_or_init(hdr[t], serial).v]
    /\ UNCHANGED <<out, wire, res, rxVars, rcvVars, scopeVars, proxyVars>>

\* the user builds a message that carries k file descriptors
NewMessageWithFds(t, k) ==
    /\ pc[t] = "idle"
    /\ pc' = [pc EXCEPT ![t] = "built"]
    /\ hdr' = [hdr EXCEPT ![t] = None]
    /\ fds' = [fds EXCEPT ![t] = k]
    /\ UNCHANGED <<connVars, op, ret, res, rxVars, rcvVars, scopeVars, sigVars,
                   cacheVars, propVars, matchVars, nameVars, newVars, osVars,
                   cap_unix_fd, tailVars>>

\* start_send's test: !msg.fds().is_empty() && !self.inner.cap_unix_fd
fd_check_off(n, cap) == FALSE
fd_check(n, cap) == n # 0 /\ ~cap

\* Sink::start_send: a message with file descriptors on a connection
\* without fd-passing returns Err(Unsupported), which `?` returns from the
\* operation; otherwise enqueue_message under the raw connection's mutex
start_send(t) ==
    /\ pc[t] = "assigned"
    /\ IF fd_check(fds[t], cap_unix_fd)
       THEN /\ pc' = [pc EXCEPT ![t] = IF op[t] = "send" THEN "idle" ELSE "done"]
            /\ res' = [res EXCEPT ![t] = [kind |-> "Unsupported", seq |-> 0]]
            /\ active' = [active EXCEPT ![t] = FALSE]
            /\ UNCHANGED out
       ELSE /\ out' = Append(out, hdr[t].v)
            /\ pc' = [pc EXCEPT ![t] = "queued"]
            /\ UNCHANGED <<res, active>>
    /\ UNCHANGED <<serial, assigned, wire, op, hdr, ret, rxVars, since, pos, uGot,
                   scopeVars, proxyVars>>

\* Sink::poll_flush: the raw connection writes its queue to the socket and
\* send_message returns Ok(serial); on a closed socket the write fails and
\* the `?` returns the I/O error from the operation
poll_flush(t) ==
    /\ pc[t] = "queued"
    /\ IF sock = "open"
       THEN /\ wire' = wire \o out
            /\ out' = <<>>
            /\ pc' = [pc EXCEPT ![t] = IF op[t] = "send" THEN "idle" ELSE "sent"]
            /\ UNCHANGED <<res, active>>
       ELSE /\ pc' = [pc EXCEPT ![t] = IF op[t] = "send" THEN "idle" ELSE "done"]
            /\ res' = [res EXCEPT ![t] = [kind |-> "Io", seq |-> 0]]
            /\ active' = [active EXCEPT ![t] = FALSE]
            /\ UNCHANGED <<wire, out>>
    /\ UNCHANGED <<serial, assigned, op, hdr, ret, rxVars, since, pos, uGot, scopeVars, proxyVars>>

(***************************************************************************)
(* Incoming messages.                                                      *)
(***************************************************************************)
\* A message as the code reads it: its type and the header fields the
\* filters look at. reply_serial 0 stands for a header without REPLY_SERIAL,
\* member/path/interface "" for an absent field.
Msg(ty, rs, p, i, m) ==
    [type |-> ty, reply_serial |-> rs, path |-> p, interface |-> i, member |-> m]

Reply(ty, rs) == Msg(ty, rs, "", "", "")

ASignalForYou == Msg("Signal", 0, "/", "org.zbus.p2p", "ASignalForYou")

\* what the peer may send while calls are pending: a reply and an error for
\* the first serial, a reply for the second, and a method call that carries
\* a REPLY_SERIAL
CallMsgs ==
    { Reply("MethodReturn", 1), Reply("Error", 1), Reply("MethodReturn", 2),
      Msg("MethodCall", 1, "/", "org.zbus.p2p", "Test") }

\* what the peer sends before it closes the socket
CloseMsgs == { Reply("MethodReturn", 1) }

\* what the peer sends in the peer-to-peer exchange of test_unix_p2p
StreamMsgs == { Reply("MethodReturn", 1), ASignalForYou }

\* the message a receiver takes next
Front(r) == inbox[bq[pos[r] + 1]]

\* async_broadcast: the channel is full when some active receiver still
\* has MaxQueued messages to take
BroadcastFull ==
    \E r \in Receivers : active[r] /\ Len(bq) - pos[r] >= MaxQueued

\* the receiver task is dropped with ConnectionInner, that is when no
\* Connection handle is left; only then is the Broadcaster dropped and the
\* channel closed. No operation of a live handle leads there.
BroadcastClosed == rxpc = "dropped"

(***************************************************************************)
(* MessageReceiverTask::receive_msg                                        *)
(***************************************************************************)
\* ReceiveMessage resolves to Ok(msg): try_receive_message framed a message
receive_msg_ok(m) ==
    /\ rxpc = "recv"
    /\ sock = "open"
    /\ Len(inbox) < MaxRecv
    /\ inbox' = Append(inbox, m)
    /\ rxpc' = "broadcast"
    /\ UNCHANGED <<connVars, taskVars, sock, rxerr, bq, errq, rcvVars, scopeVars, proxyVars>>

\* ReceiveMessage resolves to Err(e): an I/O error once the socket is
\* closed, a decode error while it is open
receive_msg_err ==
    /\ rxpc = "recv"
    /\ rxerr' = IF sock = "closed" THEN "Io" ELSE "Protocol"
    /\ rxpc' = "send_error"
    /\ UNCHANGED <<connVars, taskVars, sock, inbox, bq, errq, rcvVars, scopeVars, proxyVars>>

\* self.error_sender.send(e).await; continue
\* (a bounded(1) channel: the send waits while the channel holds an error)
error_send ==
    /\ rxpc = "send_error"
    /\ Len(errq) < 1
    /\ errq' = Append(errq, rxerr)
    /\ rxerr' = "none"
    /\ rxpc' = "recv"
    /\ UNCHANGED <<connVars, taskVars, sock, inbox, bq, rcvVars, scopeVars, proxyVars>>

\* whether the task awaits room in the channel: broadcast(..).await does,
\* a try_broadcast whose Full error is ignored would not
broadcast_try == FALSE
broadcast_waits == TRUE

\* let _ = self.msg_sender.broadcast(msg.clone()).await: waits while the
\* channel is full, then queues the message for every active receiver
broadcast_msg ==
    /\ rxpc = "broadcast"
    /\ broadcast_waits => ~BroadcastFull
    /\ bq' = IF BroadcastFull THEN bq ELSE Append(bq, Len(inbox))
    /\ rxpc' = "recv"
    /\ UNCHANGED <<connVars, taskVars, sock, inbox, rxerr, errq, rcvVars, scopeVars, proxyVars>>

\* the peer closes the socket
socket_close ==
    /\ sock = "open"
    /\ sock' = "closed"
    /\ UNCHANGED <<connVars, taskVars, inbox, rxpc, rxerr, bq, errq, rcvVars, scopeVars, proxyVars>>

(***************************************************************************)
(* Connection::call_method_raw                                             *)
(***************************************************************************)
\* MessageStream::from(conn): msg_receiver.activate_cloned() joined with a
\* clone of error_receiver. The new receiver starts at the channel's tail.
activate_cloned(r) ==
    /\ active' = [active EXCEPT ![r] = TRUE]
    /\ since' = [since EXCEPT ![r] = Len(bq)]
    /\ pos' = [pos EXCEPT ![r] = Len(bq)]

\* call_method builds the method call (Message::method, no serial) and
\* enters call_method_raw, whose first statement creates the stream:
\* let stream = MessageStream::from(self.clone())
call_method(t) ==
    /\ pc[t] = "idle"
    /\ activate_cloned(t)
    /\ hdr' = [hdr EXCEPT ![t] = None]
    /\ pc' = [pc EXCEPT ![t] = "subscribed"]
    /\ op' = [op EXCEPT ![t] = "call"]
    /\ UNCHANGED <<connVars, ret, res, rxVars, uGot, scopeVars, proxyVars>>

\* the closure given to stream.filter, for an Ok item
reply_filter_any_serial(m, s) == m.type \in {"Error", "MethodReturn"}
reply_filter(m, s) ==
    /\ m.type \in {"Error", "MethodReturn"}
    /\ m.reply_serial = s

\* the match on the filtered item
call_result(m, n) ==
    IF m.type = "Error" THEN [kind |-> "MethodError", seq |-> n]
                        ELSE [kind |-> "Ok", seq |-> n]

\* stream.filter(..).next().await polls the broadcast side of the stream: it
\* takes the next message, or finds the stream ended (None) when the channel
\* is closed and drained and returns BrokenPipe
call_poll_msg(t) ==
    /\ pc[t] = "sent" /\ op[t] = "call"
    /\ IF pos[t] < Len(bq)
       THEN /\ pos' = [pos EXCEPT ![t] = @ + 1]
            /\ IF reply_filter(Front(t), ret[t])
               THEN /\ pc' = [pc EXCEPT ![t] = "done"]
                    /\ res' = [res EXCEPT ![t] =
                                 call_result(Front(t), bq[pos[t] + 1])]
                    /\ active' = [active EXCEPT ![t] = FALSE]
               ELSE UNCHANGED <<pc, res, active>>
       ELSE /\ BroadcastClosed
            /\ errq = <<>>
            /\ pc' = [pc EXCEPT ![t] = "done"]
            /\ res' = [res EXCEPT ![t] = [kind |-> "BrokenPipe", seq |-> 0]]
            /\ active' = [active EXCEPT ![t] = FALSE]
            /\ UNCHANGED pos
    /\ UNCHANGED <<connVars, op, hdr, ret, rxVars, since, uGot, scopeVars, proxyVars>>

\* stream.filter(..).next().await takes an item of the error channel: the
\* filter maps an Err item to false, so the call goes on waiting
call_poll_err(t) ==
    /\ pc[t] = "sent" /\ op[t] = "call"
    /\ errq # <<>>
    /\ errq' = Tail(errq)
    /\ UNCHANGED <<connVars, taskVars, sock, inbox, rxpc, rxerr, bq, rcvVars, scopeVars, proxyVars>>

\* a user's stream: let mut stream = MessageStream::from(&conn)
message_stream_new ==
    /\ ~active["u"]
    /\ uGot = <<>>
    /\ activate_cloned("u")
    /\ UNCHANGED <<connVars, taskVars, rxVars, uGot, scopeVars, proxyVars>>

\* stream.try_next().await on the user's stream yields a message
stream_next(r) == bq[pos[r] + 1]

message_stream_next ==
    /\ active["u"]
    /\ pos["u"] < Len(bq)
    /\ uGot' = Append(uGot, stream_next("u"))
    /\ pos' = [pos EXCEPT !["u"] = @ + 1]
    /\ UNCHANGED <<connVars, taskVars, rxVars, active, since, scopeVars, proxyVars>>

(***************************************************************************)
(* OrderedCallbacks: the scopes.                                           *)
(***************************************************************************)
Other == Msg("Signal", 0, "/", "org.zbus.p2p", "Other")

\* what the peer may send to a connection with callbacks: a signal and the
\* reply to the first call
ScopeMsgs == { ASignalForYou, Reply("MethodReturn", 1) }

\* what the peer may send in SpecHandlers: signals that differ in member,
\* in path and in interface, and a reply
HandlerMsgs ==
    { ASignalForYou, Other,
      Msg("Signal", 0, "/other", "org.zbus.p2p", "ASignalForYou"),
      Msg("Signal", 0, "/", "org.zbus.other", "ASignalForYou"),
      Reply("MethodReturn", 1) }

\* SignalHandler::signal(path, interface, member, ..): member "" stands for
\* a handler without filter_member
Filter(m, p, i) == [member |-> m, path |-> p, interface |-> i]

\* the filters handlers are registered with
AnyMember == Filter("", "/", "org.zbus.p2p")
OneMember == Filter("ASignalForYou", "/", "org.zbus.p2p")
ScopeFilters == { OneMember }
HandlerFilters ==
    { AnyMember, OneMember, Filter("Other", "/other", "org.zbus.p2p"),
      Filter("", "/", "org.zbus.other") }

\* the scope a handle refers to: self.scope
new_scope_clone == "s1"
new_scope_result == "s2"
ScopeOf(h) == IF h = "h1" THEN "s1" ELSE hscope
Usable(h) == ScopeOf(h) \in Scopes

\* the tests of start_handlers' loop on one handler: each filter that is
\* set must equal the message's field
handler_matches_any_member(hd, m) ==
    /\ hd.path # "" => m.path = hd.path
    /\ hd.interface # "" => m.interface = hd.interface
handler_matches(hd, m) ==
    /\ hd.member # "" => m.member = hd.member
    /\ hd.path # "" => m.path = hd.path
    /\ hd.interface # "" => m.interface = hd.interface

Future(k, key, via, n) == [kind |-> k, key |-> key, via |-> via, seq |-> n]

\* for (_key, handler) in handlers.iter_mut() { .. futures.push(..) }
RECURSIVE signal_futures(_, _, _)
signal_futures(hs, m, n) ==
    IF hs = <<>> THEN <<>>
    ELSE (IF handler_matches(hs[1], m)
          THEN <<Future("signal", hs[1].key, hs[1].via, n)>>
          ELSE <<>>) \o signal_futures(Tail(hs), m, n)

\* the entry of the replies map start_handlers removes for message m
reply_entries(s, m) ==
    IF m.type # "Signal" /\ m.reply_serial # 0
    THEN {r \in replies[s] : r.serial = m.reply_serial}
    ELSE {}

\* OrderedCallbacks::start_handlers: the futures started for message m,
\* whose recv_position is n
start_handlers(s, m, n) ==
    IF m.type = "Signal"
    THEN signal_futures(handlers[s], m, n)
    ELSE IF reply_entries(s, m) # {}
         THEN LET r == CHOOSE r \in reply_entries(s, m) : TRUE
              IN  <<Future("reply", r.serial, r.via, n)>>
         ELSE <<>>

\* OrderedCallbacks::start: the first call spawns the task on a newly
\* activated receiver
start(s) ==
    IF task[s] = "none"
    THEN /\ task' = [task EXCEPT ![s] = "running"]
         /\ activate_cloned(s)
    ELSE UNCHANGED <<task, active, since, pos>>

\* Connection::new_scope: a clone of the handle with a new OrderedCallbacks
new_scope ==
    /\ hscope = "none"
    /\ hscope' = new_scope_result
    /\ alive' = [alive EXCEPT ![new_scope_result] = TRUE]
    /\ UNCHANGED <<connVars, taskVars, rxVars, rcvVars, task, handlers, nextKey,
                   replies, cur, futs, tscope, regPos, cb, proxyVars>>

\* the handle new_scope returned is dropped, and with it the last reference
\* to its scope (no operation on the handle is in progress)
drop_scope ==
    /\ hscope = "s2"
    /\ \A t \in Tasks : tscope[t] = "s2" => pc[t] \in {"sent", "done"}
    /\ hscope' = "dropped"
    /\ alive' = [alive EXCEPT !["s2"] = FALSE]
    /\ UNCHANGED <<connVars, taskVars, rxVars, rcvVars, task, handlers, nextKey,
                   replies, cur, futs, tscope, regPos, cb, proxyVars>>

\* Connection::add_signal_handler on a peer-to-peer connection (is_bus() is
\* false, so no match rule is added): start the scope, insert the handler
add_signal_handler(h, f) ==
    /\ Usable(h)
    /\ nextKey[ScopeOf(h)] <= MaxHandlers
    /\ start(ScopeOf(h))
    /\ handlers' = [handlers EXCEPT ![ScopeOf(h)] =
                      Append(@, [key |-> nextKey[ScopeOf(h)], via |-> h,
                                 member |-> f.member, path |-> f.path,
                                 interface |-> f.interface])]
    /\ nextKey' = [nextKey EXCEPT ![ScopeOf(h)] = @ + 1]
    /\ UNCHANGED <<connVars, taskVars, rxVars, uGot, hscope, alive, replies,
                   cur, futs, tscope, regPos, cb, proxyVars>>

\* Connection::remove_signal_handler on a peer-to-peer connection, for a
\* key that is registered
remove_signal_handler(h, k) ==
    /\ Usable(h)
    /\ \E i \in 1..Len(handlers[ScopeOf(h)]) : handlers[ScopeOf(h)][i].key = k
    /\ handlers' = [handlers EXCEPT ![ScopeOf(h)] =
                      SelectSeq(@, LAMBDA e : e.key # k)]
    /\ UNCHANGED <<connVars, taskVars, rxVars, rcvVars, hscope, alive, task,
                   nextKey, replies, cur, futs, tscope, regPos, cb, proxyVars>>

\* self.scope.replies.lock().insert(serial, Box::new(reply))
replies_insert_forgotten(R, e) == R
replies_insert(R, e) == {r \in R : r.serial # e.serial} \cup {e}

\* Connection::dispatch_call up to the send, for a message the caller built
\* without a serial: start the scope, assign the serial, register the reply
\* callback
dispatch_call(t, h) ==
    /\ pc[t] = "idle"
    /\ Usable(h)
    /\ start(ScopeOf(h))
    /\ hdr[t] = None
    /\ AssignStep(t)
    /\ replies' = [replies EXCEPT ![ScopeOf(h)] =
                     replies_insert(@, [serial |-> serial, task |-> t, via |-> h])]
    /\ pc' = [pc EXCEPT ![t] = "assigned"]
    /\ op' = [op EXCEPT ![t] = "dispatch"]
    /\ ret' = [ret EXCEPT ![t] = serial]
    /\ tscope' = [tscope EXCEPT ![t] = ScopeOf(h)]
    /\ regPos' = [regPos EXCEPT ![t] = pos'[ScopeOf(h)]]
    /\ UNCHANGED <<out, wire, res, rxVars, uGot, hscope, alive, handlers,
                   nextKey, cur, futs, cb, proxyVars>>

\* handlers.remove(&seq) in start_handlers: the entry leaves the map before
\* the callback is called
replies_remove_kept(R, E) == R
replies_remove(R, E) == R \ E

\* whether run awaits tasks.collect() before it polls the stream again
run_no_collect == FALSE
run_awaits_collect == TRUE

\* OrderedCallbacks::run, one turn of the loop: once the futures of the last
\* message are complete, take the next message; start its handlers if the
\* scope is still referenced, return otherwise (also when the stream ended)
run(s) ==
    /\ task[s] = "running"
    /\ run_awaits_collect => futs[s] = <<>>
    /\ IF pos[s] < Len(bq)
       THEN /\ pos' = [pos EXCEPT ![s] = @ + 1]
            /\ IF alive[s]
               THEN /\ cur' = [cur EXCEPT ![s] = bq[pos[s] + 1]]
                    /\ futs' = [futs EXCEPT ![s] =
                                  @ \o start_handlers(s, Front(s), bq[pos[s] + 1])]
                    /\ replies' = [replies EXCEPT ![s] =
                                     replies_remove(@, reply_entries(s, Front(s)))]
                    /\ cb' = [t \in Tasks |->
                                IF \E r \in reply_entries(s, Front(s)) : r.task = t
                                THEN bq[pos[s] + 1] ELSE cb[t]]
                    /\ UNCHANGED <<task, active>>
               ELSE /\ task' = [task EXCEPT ![s] = "exited"]
                    /\ active' = [active EXCEPT ![s] = FALSE]
                    /\ UNCHANGED <<cur, futs, replies, cb>>
       ELSE /\ BroadcastClosed
            /\ task' = [task EXCEPT ![s] = "exited"]
            /\ active' = [active EXCEPT ![s] = FALSE]
            /\ UNCHANGED <<pos, cur, futs, replies, cb>>
    /\ UNCHANGED <<connVars, taskVars, rxVars, since, uGot, hscope, alive,
                   handlers, nextKey, tscope, regPos, proxyVars>>

\* one of the futures of the FuturesUnordered completes
future_done(s, i) ==
    /\ i \in 1..Len(futs[s])
    /\ futs' = [futs EXCEPT ![s] =
                  SubSeq(@, 1, i - 1) \o SubSeq(@, i + 1, Len(@))]
    /\ UNCHANGED <<connVars, taskVars, rxVars, rcvVars, hscope, alive, task,
                   handlers, nextKey, replies, cur, tscope, regPos, cb, proxyVars>>

(***************************************************************************)
(* Proxy: SignalStream (src/zbus/src/proxy.rs)                             *)
(***************************************************************************)
\* the proxy's selection
ProxyPath == "/p"
ProxyInterface == "I"
WellKnown == "wk"
Bus == "org.freedesktop.DBus"

\* a message as SignalStream::filter reads it: the header fields, the sender
\* ("" when the header has none) and the body: whether it deserializes to
\* the type asked for, the name and the owner it carries ("" for none)
Body(ok, n, o) == [ok |-> ok, name |-> n, owner |-> o]
NoBody == Body(TRUE, "", "")
BusMsg(ty, rs, p, i, m, snd, b) ==
    [type |-> ty, reply_serial |-> rs, path |-> p, interface |-> i,
     member |-> m, sender |-> snd, body |-> b]
SignalFrom(snd, p, i, m) == BusMsg("Signal", 0, p, i, m, snd, NoBody)
NameOwnerChanged(snd, b) ==
    BusMsg("Signal", 0, "/org/freedesktop/DBus", Bus, "NameOwnerChanged", snd, b)

\* what the bus may deliver to the stream
SigMsgs ==
    { SignalFrom(":1.1", ProxyPath, ProxyInterface, "Sig"),
      SignalFrom(":1.2", ProxyPath, ProxyInterface, "Sig"),
      SignalFrom("", ProxyPath, ProxyInterface, "Sig"),
      SignalFrom(":1.1", ProxyPath, ProxyInterface, "Other"),
      SignalFrom(":1.1", "/q", ProxyInterface, "Sig"),
      SignalFrom(":1.1", ProxyPath, "J", "Sig"),
      BusMsg("MethodReturn", 1, "", "", "", Bus, Body(TRUE, "", ":1.1")),
      BusMsg("MethodReturn", 1, "", "", "", Bus, Body(FALSE, "", "")),
      BusMsg("MethodReturn", 2, "", "", "", Bus, Body(TRUE, "", ":1.2")),
      NameOwnerChanged(Bus, Body(TRUE, WellKnown, ":1.2")),
      NameOwnerChanged(Bus, Body(TRUE, WellKnown, "")),
      NameOwnerChanged(Bus, Body(TRUE, "other", ":1.1")),
      NameOwnerChanged(":1.2", Body(TRUE, WellKnown, ":1.2")) }

\* Proxy::receive_signals with the proxy's destination and an optional
\* member: a unique destination is the expected sender; for a well-known one
\* GetNameOwner is sent and its serial kept in src_query
receive_signals(dest, mem) ==
    /\ stream_state = "none"
    /\ Len(assigned) < MaxAssign
    /\ stream_state' = "live"
    /\ sig_member' = mem
    /\ IF dest = WellKnown
       THEN /\ src_bus_name' = dest
            /\ src_unique_name' = ""
            /\ src_query' = Some(serial)
            /\ serial' = fetch_add(serial)
            /\ assigned' = Append(assigned,
                              [task |-> "proxy", val |-> serial, fresh |-> TRUE])
       ELSE /\ src_bus_name' = ""
            /\ src_unique_name' = dest
            /\ src_query' = None
            /\ UNCHANGED <<serial, assigned>>
    /\ UNCHANGED <<out, wire, taskVars, rxVars, rcvVars, scopeVars, polled, taken,
                   yielded, sig_last_seq, orderings, none_before, cacheVars,
                   propVars,
                   matchVars, nameVars, lateVars>>

\* filter: the reply to GetNameOwner
filter_is_query_reply(m) ==
    /\ m.type = "MethodReturn"
    /\ src_query.some
    /\ m.reply_serial = src_query.v

\* filter: the signal is one of the stream's selection
filter_selected(m) ==
    /\ sig_member = "" \/ m.member = sig_member
    /\ m.path = ProxyPath
    /\ m.interface = ProxyInterface

\* filter: sender == self.src_unique_name.as_ref()
filter_sender_ignored(snd, expected) == TRUE
filter_sender(snd, expected) == snd = expected

\* filter: a NameOwnerChanged of the bus for the stream's well-known name
filter_owner_change_ignored(m) == FALSE
filter_owner_changed(m) ==
    /\ src_bus_name # ""
    /\ m.member = "NameOwnerChanged"
    /\ m.interface = Bus
    /\ m.path = "/org/freedesktop/DBus"
    /\ m.sender = Bus
    /\ m.body.ok
    /\ m.body.name = src_bus_name

\* the body of the loops of poll_next and poll_next_before for the next
\* message m of the receiver: last_seq = msg.recv_position(), then
\* filter(m), and m is yielded, with last_seq as its ordering, when filter
\* returns Ok(true). The stream exists before the first message is
\* received, so the message it takes next has the recv_position polled + 1.
stream_take(m) ==
    /\ stream_state = "live"
    /\ polled < MaxRecv
    /\ polled' = polled + 1
    /\ taken' = Append(taken, m)
    /\ sig_last_seq' = polled + 1
    /\ LET hit == filter_is_query_reply(m)
           failed == hit /\ ~m.body.ok
           resolved == IF hit /\ m.body.ok THEN m.body.owner ELSE src_unique_name
           yes == /\ ~failed
                  /\ m.type = "Signal"
                  /\ filter_selected(m)
                  /\ filter_sender(m.sender, resolved)
           moved == /\ ~failed
                    /\ m.type = "Signal"
                    /\ ~yes
                    /\ filter_owner_changed(m)
       IN  /\ src_query' = IF hit THEN None ELSE src_query
           /\ src_unique_name' = IF moved THEN m.body.owner ELSE resolved
           /\ yielded' = IF yes
                         THEN Append(yielded, [msg |-> m, expected |-> resolved])
                         ELSE yielded
           /\ orderings' = IF yes THEN Append(orderings, sig_last_seq')
                           ELSE orderings
    /\ UNCHANGED <<coreVars, stream_state, src_bus_name, sig_member, cacheVars,
                   propVars,
                   matchVars, nameVars, lateVars>>

\* SignalStream::poll_next on message m
signal_stream_poll(m) ==
    /\ stream_take(m)
    /\ UNCHANGED none_before

\* if this.last_seq >= *before { return NoneBefore }
none_before_reached_early(last, before) == last + 1 >= before
none_before_reached(last, before) == last >= before

\* SignalStream::poll_next_before(Some(before)), one turn of its loop:
\* NoneBefore once last_seq has reached the bound, the next message m
\* otherwise
poll_next_before(before, m) ==
    IF none_before_reached(sig_last_seq, before)
    THEN /\ stream_state = "live"
         /\ none_before' = {[before |-> before, last |-> sig_last_seq,
                              consumed |-> polled]}
         /\ UNCHANGED <<coreVars, stream_state, src_bus_name, src_query,
                        src_unique_name, sig_member, polled, taken, yielded,
                        sig_last_seq, orderings, cacheVars, propVars,
                        matchVars, nameVars, lateVars>>
    ELSE /\ stream_take(m)
         /\ UNCHANGED none_before

(***************************************************************************)
(* Proxy: the property cache                                               *)
(***************************************************************************)
PropNames == {"foo", "bar"}
PropsInterface == "org.freedesktop.DBus.Properties"

\* the arguments of a PropertiesChanged signal, or the body of a GetAll
\* reply (its dictionary in `changed`): whether they deserialize, the
\* interface named, the changed properties as <<name, value>> pairs and the
\* invalidated names
Args(ok, i, ch, inv) == [ok |-> ok, iface |-> i, changed |-> ch, invalidated |-> inv]

PropertiesChanged(i, ch, inv) ==
    [type |-> "Signal", reply_serial |-> 0, path |-> ProxyPath,
     interface |-> PropsInterface, member |-> "PropertiesChanged",
     args |-> Args(TRUE, i, ch, inv)]

GetAllReply(ch) ==
    [type |-> "MethodReturn", reply_serial |-> 1, path |-> "", interface |-> "",
     member |-> "", args |-> Args(TRUE, "", ch, {})]

GetAllError ==
    [type |-> "Error", reply_serial |-> 1, path |-> "", interface |-> "",
     member |-> "", args |-> Args(FALSE, "", {}, {})]

\* the reply of the service to GetAll
GetAllValues == { <<"foo", 1>>, <<"bar", 3>> }

\* what the peer may send to a proxy with a property cache
CacheMsgs ==
    { PropertiesChanged(ProxyInterface, { <<"foo", 2>> }, {}),
      PropertiesChanged(ProxyInterface, {}, {"foo"}),
      PropertiesChanged("J", { <<"bar", 2>> }, {}),
      GetAllReply(GetAllValues),
      GetAllError }

NoEntry == [present |-> FALSE, value |-> 0]
Entry(v) == [present |-> TRUE, value |-> v]

\* the names update_cache notifies: the invalidated names that have an
\* entry, and the changed names
notified_names_changed_only(vals, ch, inv) == {c[1] : c \in ch}
notified_names(vals, ch, inv) ==
    {n \in inv : vals[n].present} \cup {c[1] : c \in ch}

\* PropertiesCache::update_cache: the values after it. Invalidated names
\* that have an entry lose their value; then every changed name gets an
\* entry with the new value.
update_cache_skips_changed(vals, ch, inv) ==
    [n \in PropNames |->
       IF n \in inv /\ vals[n].present THEN Entry(0) ELSE vals[n]]
update_cache_keeps_set(vals, ch, inv) ==
    [n \in PropNames |->
       IF vals[n].present /\ vals[n].value # 0 /\ n \notin inv THEN vals[n]
       ELSE IF \E c \in ch : c[1] = n
            THEN Entry((CHOOSE c \in ch : c[1] = n)[2])
            ELSE IF n \in inv /\ vals[n].present THEN Entry(0) ELSE vals[n]]
update_cache(vals, ch, inv) ==
    [n \in PropNames |->
       IF \E c \in ch : c[1] = n
       THEN Entry((CHOOSE c \in ch : c[1] = n)[2])
       ELSE IF n \in inv /\ vals[n].present THEN Entry(0) ELSE vals[n]]

\* entry.event.notify(usize::MAX): every listener registered so far is woken
notify(ls, names) ==
    [n \in PropNames |-> IF n \in names /\ ls[n] = "waiting" THEN "notified" ELSE ls[n]]

\* ProxyBuilder::build: a proxy with or without a property cache
proxy_new(c) ==
    /\ cache_cfg = "unbuilt"
    /\ cache_cfg' = c
    /\ UNCHANGED <<coreVars, sigVars, cache_task, values, listener, ready_ch,
                   ready_closed, ready_ret, last_seq, right_done, applied,
                   propVars,
                   matchVars, nameVars, lateVars>>

\* Proxy::get_property_cache, the first call: the OnceCell is initialised
\* with an empty cache and the task is spawned
get_property_cache ==
    /\ cache_cfg = "yes"
    /\ cache_task = "none"
    /\ cache_task' = "spawned"
    /\ UNCHANGED <<coreVars, sigVars, cache_cfg, values, listener, ready_ch,
                   ready_closed, ready_ret, last_seq, right_done, applied,
                   propVars,
                   matchVars, nameVars, lateVars>>

\* the task: proxy.receive_properties_changed().await creates the signal
\* stream, whose receiver is activated first
cache_subscribe ==
    /\ cache_task = "spawned"
    /\ activate_cloned("ps")
    /\ cache_task' = "subscribed"
    /\ UNCHANGED <<connVars, taskVars, rxVars, uGot, scopeVars, sigVars, cache_cfg,
                   values, listener, ready_ch, ready_closed, ready_ret, last_seq,
                   right_done, applied,
                   propVars,
                   matchVars, nameVars, lateVars>>

\* the task: proxy.connection().call_method_raw(get_all).await has returned.
\* On Ok the join of the two streams starts; on Err the error is sent to the
\* ready channel and the task returns, which drops the sender and the
\* signal stream with its receiver.
cache_get_all_returned ==
    /\ cache_task = "subscribed"
    /\ pc["t1"] = "done"
    /\ IF res["t1"].kind = "Ok"
       THEN /\ cache_task' = "join"
            /\ UNCHANGED <<ready_ch, ready_closed>>
       ELSE /\ cache_task' = "ended"
            /\ ready_ch' = Append(ready_ch, "Err")
            /\ ready_closed' = TRUE
    /\ active' = IF res["t1"].kind = "Ok" THEN active
                 ELSE [active EXCEPT !["ps"] = FALSE]
    /\ UNCHANGED <<connVars, taskVars, rxVars, since, pos, uGot, scopeVars,
                   sigVars, cache_cfg, values, listener, ready_ret, last_seq,
                   right_done, applied, propVars,
                   matchVars, nameVars, lateVars>>

\* the signal stream's filter and the task's test of the arguments: a
\* PropertiesChanged signal of the proxy's object about the proxy's interface
cache_accepts(m) ==
    /\ m.type = "Signal"
    /\ m.member = "PropertiesChanged"
    /\ m.path = ProxyPath
    /\ m.interface = PropsInterface
    /\ m.args.ok
    /\ m.args.iface = ProxyInterface

\* whether the join yields the GetAll reply next: the signal stream has
\* answered NoneBefore, that is its last_seq has reached the reply's
\* recv_position (SignalStream::poll_next_before)
join_takes_reply_first == ~right_done
join_takes_reply == ~right_done /\ last_seq >= res["t1"].seq

\* send.close() after the outcome was sent
close_forgotten(closed, is_reply) == closed
close_after_send(closed, is_reply) == closed \/ is_reply

\* the task: one turn of the loop on join.next().await. update_cache takes
\* the write lock of the values: it waits while a guard is held, and its
\* expect("lock poisoned") panics on a poisoned lock, which ends the task
\* and drops the sender and the signal stream.
cache_join_next ==
    /\ cache_task = "join"
    /\ join_takes_reply \/ pos["ps"] < Len(bq)
    /\ LET is_reply == join_takes_reply
           n == IF is_reply THEN res["t1"].seq ELSE bq[pos["ps"] + 1]
           m == inbox[n]
           updates == IF is_reply THEN m.args.ok ELSE cache_accepts(m)
           inv == IF is_reply THEN {} ELSE m.args.invalidated
       IN  /\ updates => lock \in {"free", "poisoned"}
           /\ IF updates /\ lock = "poisoned"
              THEN /\ cache_task' = "ended"
                   /\ active' = [active EXCEPT !["ps"] = FALSE]
                   /\ ready_closed' = TRUE
                   /\ UNCHANGED <<pos, last_seq, right_done, values, listener,
                                  ready_ch, applied>>
              ELSE /\ pos' = IF is_reply THEN pos ELSE [pos EXCEPT !["ps"] = @ + 1]
                   /\ last_seq' = IF is_reply THEN last_seq ELSE n
                   /\ right_done' = (right_done \/ is_reply)
                   /\ values' = IF updates
                                THEN update_cache(values, m.args.changed, inv)
                                ELSE values
                   /\ listener' = IF updates
                                  THEN notify(listener,
                                         notified_names(values, m.args.changed, inv))
                                  ELSE listener
                   /\ applied' = IF updates \/ is_reply THEN Append(applied, n)
                                 ELSE applied
                   /\ ready_ch' = IF is_reply
                                  THEN Append(ready_ch, IF m.args.ok THEN "Ok" ELSE "Err")
                                  ELSE ready_ch
                   /\ ready_closed' = close_after_send(ready_closed, is_reply)
                   /\ UNCHANGED <<cache_task, active>>
    /\ UNCHANGED <<connVars, taskVars, rxVars, since, uGot, scopeVars, sigVars,
                   cache_cfg, ready_ret, lock, prop_stream, prop_name, items,
                   created_at, yielded_at, get_pc, got,
                   matchVars, nameVars, lateVars>>

\* PropertiesCache::ready: the first caller receives the result; a caller
\* that finds the channel closed and empty gets Ok
ready ==
    /\ cache_task # "none"
    /\ Len(ready_log) < MaxReady
    /\ IF ready_ch # <<>>
       THEN /\ ready_ret' = Head(ready_ch)
            /\ ready_ch' = Tail(ready_ch)
       ELSE /\ ready_closed
            /\ ready_ret' = "Ok"
            /\ UNCHANGED ready_ch
    /\ ready_log' = Append(ready_log,
                           [ret |-> ready_ret',
                            from |-> IF ready_ch # <<>> THEN "recv" ELSE "closed"])
    /\ UNCHANGED <<coreVars, sigVars, cache_cfg, cache_task, values, listener,
                   ready_closed, last_seq, right_done, applied,
                   propVars,
                   matchVars, nameVars, newVars, osVars, fdVars, watchVars,
                   handVars, subVars>>

\* the outcome of cached_property: Ok(None), Ok(Some(v)), or a panic
NoValue == [kind |-> "None", v |-> 0]
SomeValue(x) == [kind |-> "Some", v |-> x]
Panic == [kind |-> "panic", v |-> 0]

\* Proxy::cached_property_raw followed by the as_deref of cached_property:
\* None without a started cache or without an entry for the name; otherwise
\* the wrapper is dereferenced, which expects the entry to hold a value
cached_property(n) ==
    IF cache_cfg # "yes" \/ cache_task = "none" THEN NoValue
    ELSE IF ~values[n].present THEN NoValue
    ELSE IF values[n].value = 0 THEN Panic
    ELSE SomeValue(values[n].value)

(***************************************************************************)
(* Proxy: PropertyStream and PropertyChanged                               *)
(***************************************************************************)
\* what the remote Properties.Get may answer
GetValue == 5
GetAnswers == {"Err", "Ok"}

\* the peer of a proxy whose property stream is watched
PropMsgs ==
    { PropertiesChanged(ProxyInterface, { <<"foo", 2>> }, {}),
      PropertiesChanged(ProxyInterface, {}, {"foo"}),
      GetAllReply(GetAllValues),
      GetAllError }

\* Proxy::receive_property_changed: with a cache (created, and its task
\* spawned, by the first get_property_cache) the name gets an entry and the
\* stream listens on the entry's event; without one the stream listens on
\* an event nobody else refers to
receive_property_changed(n) ==
    /\ cache_cfg \in {"yes", "no"}
    /\ prop_stream = "none"
    /\ IF cache_cfg = "yes"
       THEN /\ lock = "free"
            /\ cache_task' = IF cache_task = "none" THEN "spawned" ELSE cache_task
            /\ values' = [values EXCEPT ![n] = IF @.present THEN @ ELSE Entry(0)]
            /\ listener' = [listener EXCEPT ![n] = "waiting"]
       ELSE /\ listener' = [listener EXCEPT ![n] = "detached"]
            /\ UNCHANGED <<cache_task, values>>
    /\ prop_stream' = "live"
    /\ prop_name' = n
    /\ created_at' = Len(inbox)
    /\ yielded_at' = Len(applied)
    /\ UNCHANGED <<coreVars, sigVars, cache_cfg, ready_ch, ready_closed, ready_ret,
                   last_seq, right_done, applied, items, lock, get_pc, got,
                   matchVars, nameVars, lateVars>>

\* PropertyStream::poll_next up to ready!(event.poll): Ready(None) without a
\* cache; Pending (no step) until the listener was notified, which uses the
\* listener up
property_stream_poll ==
    /\ prop_stream = "live"
    /\ IF cache_cfg # "yes"
       THEN /\ prop_stream' = "ended"
            /\ UNCHANGED listener
       ELSE /\ listener[prop_name] = "notified"
            /\ listener' = [listener EXCEPT ![prop_name] = "none"]
            /\ prop_stream' = "polled"
    /\ UNCHANGED <<coreVars, sigVars, cache_cfg, cache_task, values, ready_ch,
                   ready_closed, ready_ret, last_seq, right_done, applied,
                   prop_name, items, created_at, yielded_at, lock, get_pc, got,
                   matchVars, nameVars, lateVars>>

\* PropertyStream::poll_next, the rest: under the read lock a new listener
\* is registered on the entry's event, and the item is returned
property_stream_yield ==
    /\ prop_stream = "polled"
    /\ lock \in {"free", "read"}
    /\ listener' = [listener EXCEPT ![prop_name] = "waiting"]
    /\ items' = items + 1
    /\ yielded_at' = Len(applied)
    /\ prop_stream' = "live"
    /\ UNCHANGED <<coreVars, sigVars, cache_cfg, cache_task, values, ready_ch,
                   ready_closed, ready_ret, last_seq, right_done, applied,
                   prop_name, created_at, lock, get_pc, got,
                   matchVars, nameVars, lateVars>>

\* PropertyChanged::get_raw on an item of the stream, up to the Get call:
\* under the read lock, an entry that holds a value is returned in a
\* Wrapper that keeps the read guard; otherwise the guard is dropped and
\* Get is called
get_raw_start ==
    /\ items > 0
    /\ get_pc = "idle"
    /\ lock = "free"
    /\ IF values[prop_name].value # 0
       THEN /\ get_pc' = "returned"
            /\ got' = values[prop_name].value
            /\ lock' = "read"
       ELSE /\ get_pc' = "calling"
            /\ UNCHANGED <<got, lock>>
    /\ UNCHANGED <<coreVars, sigVars, cacheVars, prop_stream, prop_name, items,
                   created_at, yielded_at,
                   matchVars, nameVars, lateVars>>

\* get_raw: properties_proxy.get(..).await is answered. An error is
\* returned by `?`; a value is stored under the write lock, whose guard
\* `values` lives to the end of the function
get_raw_answered(a) ==
    /\ get_pc = "calling"
    /\ IF a = "Err"
       THEN /\ get_pc' = "failed"
            /\ UNCHANGED <<values, lock>>
       ELSE /\ lock = "free"
            /\ values' = [values EXCEPT ![prop_name] = Entry(GetValue)]
            /\ lock' = "write"
            /\ get_pc' = "stored"
    /\ UNCHANGED <<coreVars, sigVars, cache_cfg, cache_task, listener, ready_ch,
                   ready_closed, ready_ret, last_seq, right_done, applied,
                   prop_stream, prop_name, items, created_at, yielded_at, got,
                   matchVars, nameVars, lateVars>>

\* what std::sync::RwLock::read does on a thread that holds the lock's write
\* guard: it blocks for ever, or it panics (and the unwinding, which drops
\* the write guard, poisons the lock)
ReentrantRead == {"deadlock", "panic"}

\* get_raw: the Wrapper of the result is built with
\* self.properties.values.read() while the write guard is still alive
get_raw_read(o) ==
    /\ get_pc = "stored"
    /\ IF lock # "write"
       THEN /\ get_pc' = "returned"
            /\ got' = values[prop_name].value
            /\ lock' = "read"
       ELSE /\ get_pc' = o
            /\ lock' = IF o = "panic" THEN "poisoned" ELSE lock
            /\ UNCHANGED got
    /\ UNCHANGED <<coreVars, sigVars, cacheVars, prop_stream, prop_name, items,
                   created_at, yielded_at,
                   matchVars, nameVars, lateVars>>

\* the caller drops the Wrapper (or the error) get_raw returned
drop_wrapper ==
    /\ get_pc \in {"returned", "failed"}
    /\ get_pc' = "idle"
    /\ lock' = IF get_pc = "returned" THEN "free" ELSE lock
    /\ got' = 0
    /\ UNCHANGED <<coreVars, sigVars, cacheVars, prop_stream, prop_name, items,
                   created_at, yielded_at,
                   matchVars, nameVars, lateVars>>

(***************************************************************************)
(* Connection: match rules                                                 *)
(***************************************************************************)
Users == {"u1", "u2", "u3"}
Exprs == {"e1", "e2"}
Vacant == 0 - 1

\* self.inner.signal_matches.lock().await: an async mutex, held by the
\* guard `subscriptions` to the end of add_match / remove_match
mutex_ignored(holder) == TRUE
mutex_acquirable(holder) == holder = "none"

\* Connection::add_match up to the bus call: on a vacant entry AddMatch is
\* called with the mutex held; an occupied entry is incremented
add_match(u, e) ==
    /\ upc[u] = "idle"
    /\ mutex_acquirable(match_lock)
    /\ uexpr' = [uexpr EXCEPT ![u] = e]
    /\ IF signal_matches[e] = Vacant
       THEN /\ match_lock' = u
            /\ add_sent' = [add_sent EXCEPT ![e] = @ + 1]
            /\ upc' = [upc EXCEPT ![u] = "add_call"]
            /\ UNCHANGED signal_matches
       ELSE /\ signal_matches' = [signal_matches EXCEPT ![e] = @ + 1]
            /\ upc' = [upc EXCEPT ![u] = "held"]
            /\ UNCHANGED <<match_lock, add_sent>>
    /\ UNCHANGED <<coreVars, sigVars, cacheVars, propVars, nameVars, lateVars, bus_rules, add_ok, rm_sent>>

\* add_match: the bus answers AddMatch. On an error `?` returns and nothing
\* is inserted; otherwise e.insert(1). The guard is dropped on return.
add_match_reply(u, ok) ==
    /\ upc[u] = "add_call"
    /\ match_lock' = "none"
    /\ IF ok
       THEN /\ bus_rules' = [bus_rules EXCEPT ![uexpr[u]] = @ + 1]
            /\ signal_matches' = [signal_matches EXCEPT ![uexpr[u]] = 1]
            /\ add_ok' = [add_ok EXCEPT ![uexpr[u]] = @ + 1]
            /\ upc' = [upc EXCEPT ![u] = "held"]
       ELSE /\ upc' = [upc EXCEPT ![u] = "failed"]
            /\ UNCHANGED <<bus_rules, signal_matches, add_ok>>
    /\ UNCHANGED <<coreVars, sigVars, cacheVars, propVars, nameVars, lateVars, uexpr, add_sent, rm_sent>>

\* where Drop leaves the user of an expression: the removal is queued
drop_forgets == "done"
drop_queues == "queued"

\* Drop for SignalStream: queue_remove_match(expr) spawns and detaches a
\* task that calls remove_match; nothing is awaited
drop_stream(u) ==
    /\ upc[u] = "held"
    /\ upc' = [upc EXCEPT ![u] = drop_queues]
    /\ UNCHANGED <<coreVars, sigVars, cacheVars, propVars, nameVars, lateVars, signal_matches,
                   match_lock, uexpr, bus_rules, add_sent, add_ok, rm_sent>>

\* Connection::remove_match up to the bus call: Ok(false) on a vacant
\* entry; otherwise the count is decremented, and at zero RemoveMatch is
\* called with the mutex held
remove_match(u) ==
    /\ upc[u] \in {"held", "queued"}
    /\ mutex_acquirable(match_lock)
    /\ IF signal_matches[uexpr[u]] = Vacant
       THEN /\ upc' = [upc EXCEPT ![u] = "done"]
            /\ UNCHANGED <<signal_matches, match_lock, rm_sent>>
       ELSE /\ signal_matches' = [signal_matches EXCEPT ![uexpr[u]] = @ - 1]
            /\ IF signal_matches[uexpr[u]] - 1 = 0
               THEN /\ match_lock' = u
                    /\ rm_sent' = [rm_sent EXCEPT ![uexpr[u]] = @ + 1]
                    /\ upc' = [upc EXCEPT ![u] = "rm_call"]
               ELSE /\ upc' = [upc EXCEPT ![u] = "done"]
                    /\ UNCHANGED <<match_lock, rm_sent>>
    /\ UNCHANGED <<coreVars, sigVars, cacheVars, propVars, nameVars, lateVars, uexpr, bus_rules,
                   add_sent, add_ok>>

\* the caller that holds a reference calls remove_match itself
remove_match_direct(u) == upc[u] = "held" /\ remove_match(u)

\* the task queue_remove_match spawned runs
removal_task(u) == upc[u] = "queued" /\ remove_match(u)

\* remove_match: the bus answers RemoveMatch, with an error when it holds no
\* such rule. On an error `?` returns and the entry stays; otherwise
\* e.remove(). The guard is dropped on return.
remove_match_reply(u) ==
    /\ upc[u] = "rm_call"
    /\ match_lock' = "none"
    /\ IF bus_rules[uexpr[u]] > 0
       THEN /\ bus_rules' = [bus_rules EXCEPT ![uexpr[u]] = @ - 1]
            /\ signal_matches' = [signal_matches EXCEPT ![uexpr[u]] = Vacant]
            /\ upc' = [upc EXCEPT ![u] = "done"]
       ELSE /\ upc' = [upc EXCEPT ![u] = "failed"]
            /\ UNCHANGED <<bus_rules, signal_matches>>
    /\ UNCHANGED <<coreVars, sigVars, cacheVars, propVars, nameVars, lateVars, uexpr, add_sent, add_ok,
                   rm_sent>>

\* remove_match: the RemoveMatch call returns an error although the bus
\* holds the rule (the connection failed, or the bus answered with an
\* Error): `?` returns after the decrement and before e.remove(). The guard
\* is dropped on return.
remove_match_error(u) ==
    /\ upc[u] = "rm_call"
    /\ match_lock' = "none"
    /\ upc' = [upc EXCEPT ![u] = "rm_failed"]
    /\ UNCHANGED <<coreVars, sigVars, cacheVars, propVars, nameVars, lateVars, uexpr,
                   signal_matches, bus_rules, add_sent, add_ok, rm_sent>>

(***************************************************************************)
(* ProxyInner::destination_unique_name and Drop for ProxyInnerStatic       *)
(***************************************************************************)
\* the callers of receive_signal on one proxy; the third user of the
\* registry is a stream of another proxy with the same expression
Watchers == {"u1", "u2"}
WatchExpr == "e1"

\* ProxyInner::new: the proxy's destination is a well-known or a unique
\* name
proxy_inner_new(kind) ==
    /\ dest_kind = "none"
    /\ dest_kind' = kind
    /\ UNCHANGED <<coreVars, sigVars, cacheVars, propVars, matchVars, nameVars,
                   newVars, osVars, fdVars, moreVars, dest_name_watcher, watcher_by,
                   proxy_dropped, dpc>>

\* destination_unique_name up to add_match: Ok(()) at once off the bus, for
\* a unique name and when the watcher is set
watcher_call(u) ==
    /\ dest_kind # "none"
    /\ ~proxy_dropped
    /\ dpc[u] = "idle"
    /\ dpc' = [dpc EXCEPT ![u] =
                 IF ~bus_conn \/ dest_kind = "unique" \/ dest_name_watcher # ""
                 THEN "done" ELSE "adding"]
    /\ UNCHANGED <<coreVars, sigVars, cacheVars, propVars, matchVars, nameVars,
                   newVars, osVars, fdVars, moreVars, dest_kind, dest_name_watcher,
                   watcher_by, proxy_dropped>>

\* conn.add_match(signal_expr.clone()).await
watcher_add_match(u) ==
    /\ dpc[u] = "adding"
    /\ upc[u] = "idle"
    /\ add_match(u, WatchExpr)

\* OnceCell::set: Err when the cell is full
once_cell_set_always(w) == TRUE
once_cell_set_ok(w) == w = ""

\* after add_match: `?` returns its error; otherwise dest_name_watcher.set,
\* and the call that finds the cell full goes on to remove_match
watcher_set(u) ==
    /\ dpc[u] = "adding"
    /\ upc[u] \in {"held", "failed"}
    /\ IF upc[u] = "failed"
       THEN /\ dpc' = [dpc EXCEPT ![u] = "failed"]
            /\ UNCHANGED <<dest_name_watcher, watcher_by>>
       ELSE IF once_cell_set_ok(dest_name_watcher)
       THEN /\ dest_name_watcher' = WatchExpr
            /\ watcher_by' = u
            /\ dpc' = [dpc EXCEPT ![u] = "done"]
       ELSE /\ dpc' = [dpc EXCEPT ![u] = "losing"]
            /\ UNCHANGED <<dest_name_watcher, watcher_by>>
    /\ UNCHANGED <<coreVars, sigVars, cacheVars, propVars, matchVars, nameVars,
                   newVars, osVars, fdVars, moreVars, dest_kind, proxy_dropped>>

\* conn.remove_match(signal_expr).await of the call that lost the race
watcher_remove_match(u) ==
    /\ dpc[u] = "losing"
    /\ remove_match_direct(u)

\* remove_match has returned: `?`, then Ok(())
watcher_removed(u) ==
    /\ dpc[u] = "losing"
    /\ upc[u] \in {"done", "failed"}
    /\ dpc' = [dpc EXCEPT ![u] = upc[u]]
    /\ UNCHANGED <<coreVars, sigVars, cacheVars, propVars, matchVars, nameVars,
                   newVars, osVars, fdVars, moreVars, dest_kind, dest_name_watcher,
                   watcher_by, proxy_dropped>>

\* Drop for ProxyInnerStatic, when no call borrows the proxy any more:
\* dest_name_watcher.take() and queue_remove_match(expr)
drop_proxy ==
    /\ dest_kind # "none"
    /\ ~proxy_dropped
    /\ \A u \in Watchers : dpc[u] \in {"idle", "done", "failed"}
    /\ proxy_dropped' = TRUE
    /\ dest_name_watcher' = ""
    /\ IF dest_name_watcher # ""
       THEN upc' = [upc EXCEPT ![watcher_by] = drop_queues]
       ELSE UNCHANGED upc
    /\ UNCHANGED <<coreVars, sigVars, cacheVars, propVars, nameVars, newVars,
                   osVars, fdVars, moreVars, dest_kind, watcher_by, dpc, signal_matches,
                   match_lock, uexpr, bus_rules, add_sent, add_ok, rm_sent>>

(***************************************************************************)
(* Connection::add_signal_handler and remove_signal_handler with the match *)
(* rule of the handler (connection.rs 855-895)                             *)
(***************************************************************************)
\* the callers that register a handler
Registrants == {"u1", "u2"}

\* add_signal_handler up to add_match: the scope is started; off the bus
\* add_match is skipped
handler_start(u, h, e) ==
    /\ hpc[u] = "idle"
    /\ Usable(h)
    /\ nextKey[ScopeOf(h)] <= MaxHandlers
    /\ start(ScopeOf(h))
    /\ hcall' = [hcall EXCEPT ![u] = [via |-> h, expr |-> e, key |-> 0]]
    /\ hpc' = [hpc EXCEPT ![u] = IF bus_conn THEN "adding" ELSE "inserting"]
    /\ UNCHANGED <<connVars, taskVars, rxVars, uGot, hscope, alive, handlers,
                   nextKey, replies, cur, futs, tscope, regPos, cb, sigVars,
                   cacheVars, propVars, matchVars, nameVars, newVars, osVars,
                   fdVars, watchVars, ready_log, subVars>>

\* self.add_match(handler.match_expr.clone()).await
handler_add_match(u) ==
    /\ hpc[u] = "adding"
    /\ upc[u] = "idle"
    /\ add_match(u, hcall[u].expr)

\* whether add_signal_handler goes on to insert the handler: `?` returns
\* the error of add_match
insert_regardless(added) == TRUE
insert_after_add(added) == added

\* add_signal_handler after add_match: self.scope.handlers.lock().insert
handler_insert(u) ==
    /\ \/ hpc[u] = "inserting"
       \/ hpc[u] = "adding" /\ upc[u] \in {"held", "failed"}
    /\ Usable(hcall[u].via)
    /\ LET s == ScopeOf(hcall[u].via)
       IN  IF insert_after_add(hpc[u] = "inserting" \/ upc[u] = "held")
           THEN /\ handlers' = [handlers EXCEPT ![s] =
                                  Append(@, [key |-> nextKey[s],
                                             via |-> hcall[u].via,
                                             member |-> AnyMember.member,
                                             path |-> AnyMember.path,
                                             interface |-> AnyMember.interface,
                                             expr |-> hcall[u].expr])]
                /\ nextKey' = [nextKey EXCEPT ![s] = @ + 1]
                /\ hcall' = [hcall EXCEPT ![u].key = nextKey[s]]
                /\ hpc' = [hpc EXCEPT ![u] = "registered"]
           ELSE /\ hpc' = [hpc EXCEPT ![u] = "failed"]
                /\ UNCHANGED <<handlers, nextKey, hcall>>
    /\ UNCHANGED <<connVars, taskVars, rxVars, rcvVars, hscope, alive, task,
                   replies, cur, futs, tscope, regPos, cb, sigVars, cacheVars,
                   propVars, matchVars, nameVars, newVars, osVars, fdVars,
                   watchVars, ready_log, subVars>>

\* remove_signal_handler up to remove_match: the handler is taken out of
\* the map; off the bus that is all
handler_remove(u) ==
    /\ hpc[u] = "registered"
    /\ Usable(hcall[u].via)
    /\ handlers' = [handlers EXCEPT ![ScopeOf(hcall[u].via)] =
                      SelectSeq(@, LAMBDA e : e.key # hcall[u].key)]
    /\ hpc' = [hpc EXCEPT ![u] = IF bus_conn THEN "removing" ELSE "removed"]
    /\ UNCHANGED <<connVars, taskVars, rxVars, rcvVars, hscope, alive, task,
                   nextKey, replies, cur, futs, tscope, regPos, cb, sigVars,
                   cacheVars, propVars, matchVars, nameVars, newVars, osVars,
                   fdVars, watchVars, ready_log, subVars, hcall>>

\* self.remove_match(h.match_expr).await
handler_remove_match(u) ==
    /\ hpc[u] = "removing"
    /\ remove_match_direct(u)

\* remove_match has returned: `?`, then Ok(true)
handler_removed(u) ==
    /\ hpc[u] = "removing"
    /\ upc[u] \in {"done", "failed", "rm_failed"}
    /\ hpc' = [hpc EXCEPT ![u] = "removed"]
    /\ UNCHANGED <<coreVars, sigVars, cacheVars, propVars, matchVars, nameVars,
                   newVars, osVars, fdVars, watchVars, ready_log, subVars, hcall>>

(***************************************************************************)
(* Proxy::receive_signals with the match rule of the stream (proxy.rs      *)
(* 746-792) for a well-known destination                                   *)
(***************************************************************************)
\* the expression of the stream
StreamExpr == "e1"

\* conn.add_match(expr.clone()).await
subscribe_add_match(u) ==
    /\ spc[u] = "idle"
    /\ upc[u] = "idle"
    /\ add_match(u, StreamExpr)

\* after add_match: `?` returns its error; otherwise GetNameOwner is sent
\* with send_message, whose error `?` returns as well; on Ok the
\* SignalStream is built
subscribe_send_query(u) ==
    /\ spc[u] = "idle"
    /\ upc[u] \in {"held", "failed"}
    /\ IF upc[u] = "failed"
       THEN /\ spc' = [spc EXCEPT ![u] = "add_failed"]
            /\ UNCHANGED <<serial, assigned, wire>>
       ELSE /\ Len(assigned) < MaxAssign
            /\ serial' = fetch_add(serial)
            /\ assigned' = Append(assigned,
                              [task |-> u, val |-> serial, fresh |-> TRUE])
            /\ IF sock = "open"
               THEN /\ wire' = Append(wire, serial)
                    /\ spc' = [spc EXCEPT ![u] = "live"]
               ELSE /\ spc' = [spc EXCEPT ![u] = "send_failed"]
                    /\ UNCHANGED wire
    /\ UNCHANGED <<out, taskVars, rxVars, rcvVars, scopeVars, sigVars, cacheVars,
                   propVars, matchVars, nameVars, newVars, osVars, fdVars,
                   watchVars, ready_log, handVars>>

\* the SignalStream that receive_signals returned is dropped
subscribe_drop(u) ==
    /\ spc[u] = "live"
    /\ drop_stream(u)

InitMatch ==
    /\ signal_matches = [e \in Exprs |-> Vacant]
    /\ match_lock = "none"
    /\ upc = [u \in Users |-> "idle"]
    /\ uexpr = [u \in Users |-> "e1"]
    /\ bus_rules = [e \in Exprs |-> 0]
    /\ add_sent = [e \in Exprs |-> 0]
    /\ add_ok = [e \in Exprs |-> 0]
    /\ rm_sent = [e \in Exprs |-> 0]

(***************************************************************************)
(* Connection: the ObjectServer and its dispatch task                      *)
(***************************************************************************)
\* what a peer sends to an object server
ObjMsgs == { Msg("MethodCall", 0, "/obj", "org.example.I", "Hello") }

\* self.inner.object_server.get_or_init(|| self.setup_object_server()): the
\* first call, on a bus connection, runs start_object_server, which creates
\* the stream of the dispatch task (activating its receiver) and spawns the
\* task
object_server_get_or_init ==
    /\ os_cell' = "set"
    /\ IF os_cell = "unset" /\ bus_conn /\ os_task = "none"
       THEN /\ os_task' = "running"
            /\ activate_cloned("os")
       ELSE UNCHANGED <<os_task, active, since, pos>>

\* RwLock::read().await: granted unless a writer holds the lock or waits
\* for it
read_ignores_writer(l) == TRUE
read_acquirable(l) == l = "none"

\* the dispatch task: stream.next().await yields a message; the connection
\* is alive, so a task is spawned (and detached) to dispatch it
os_stream_msg ==
    /\ os_task = "running"
    /\ pos["os"] < Len(bq)
    /\ pos' = [pos EXCEPT !["os"] = @ + 1]
    /\ spawned' = spawned \cup {bq[pos["os"] + 1]}
    /\ UNCHANGED <<connVars, taskVars, rxVars, active, since, uGot, scopeVars,
                   sigVars, cacheVars, propVars, matchVars, nameVars, newVars, fdVars, tailVars,
                   os_cell, os_task, os_lock, os_readers, dispatched,
                   request_sent_at>>

\* the dispatch task: stream.next().await yields an item of the error
\* channel; and_then(|m| m.ok()) turns it into None, which ends the loop and
\* the task, dropping the stream
os_stream_err ==
    /\ os_task = "running"
    /\ errq # <<>>
    /\ errq' = Tail(errq)
    /\ os_task' = "ended"
    /\ active' = [active EXCEPT !["os"] = FALSE]
    /\ UNCHANGED <<connVars, taskVars, sock, inbox, rxpc, rxerr, bq, since, pos,
                   uGot, scopeVars, sigVars, cacheVars, propVars, matchVars,
                   nameVars, newVars, fdVars, tailVars, os_cell, os_lock, os_readers, spawned,
                   dispatched, request_sent_at>>

\* a spawned task: conn.object_server().await returns the read guard
dispatch_begin(n) ==
    /\ n \in spawned
    /\ read_acquirable(os_lock)
    /\ spawned' = spawned \ {n}
    /\ os_readers' = os_readers \cup {n}
    /\ UNCHANGED <<coreVars, sigVars, cacheVars, propVars, matchVars, nameVars,
                   newVars, fdVars, tailVars, os_cell, os_task, os_lock, dispatched,
                   request_sent_at>>

\* a spawned task: server.dispatch_message(&msg).await has run; the guard
\* is dropped
dispatch_end(n) ==
    /\ n \in os_readers
    /\ os_readers' = os_readers \ {n}
    /\ dispatched' = Append(dispatched, n)
    /\ UNCHANGED <<coreVars, sigVars, cacheVars, propVars, matchVars, nameVars,
                   newVars, fdVars, tailVars, os_cell, os_task, os_lock, spawned, request_sent_at>>

\* Connection::object_server_mut up to write().await: the writer queues
\* for the lock, which keeps new readers out
object_server_mut ==
    /\ os_lock = "none"
    /\ object_server_get_or_init
    /\ os_lock' = "waiting"
    /\ UNCHANGED <<connVars, taskVars, rxVars, uGot, scopeVars, sigVars, cacheVars,
                   propVars, matchVars, nameVars, newVars, fdVars, tailVars, os_readers, spawned,
                   dispatched, request_sent_at>>

\* object_server_mut returns the write guard once the read guards are gone
object_server_mut_acquire ==
    /\ os_lock = "waiting"
    /\ os_readers = {}
    /\ os_lock' = "held"
    /\ UNCHANGED <<coreVars, sigVars, cacheVars, propVars, matchVars, nameVars,
                   newVars, fdVars, tailVars, os_cell, os_task, os_readers, spawned, dispatched,
                   request_sent_at>>

\* the caller drops the guard object_server_mut returned
drop_guard ==
    /\ os_lock = "held"
    /\ os_lock' = "none"
    /\ UNCHANGED <<coreVars, sigVars, cacheVars, propVars, matchVars, nameVars,
                   newVars, fdVars, tailVars, os_cell, os_task, os_readers, spawned, dispatched,
                   request_sent_at>>

(***************************************************************************)
(* Connection: request_name and release_name                               *)
(***************************************************************************)
Callers == {"c1", "c2"}
\* a name the bus grants, and the bus's own name, for which it answers
\* RequestName and ReleaseName with an error
Names == {"com.example.A", Bus}

Returned(o, n, r, s) == [op |-> o, name |-> n, ret |-> r, sent |-> s]

\* names.remove(&well_known_name) of release_name
names_kept(names, n) == names
names_remove(names, n) == names \ {n}

\* whether request_name has the object server set up before it calls the
\* bus: self.object_server().await
request_name_skips_server == FALSE
request_name_ensures_server == TRUE

\* Connection::request_name up to self.object_server().await: under the
\* mutex, a name that is recorded returns Ok(()) at once; otherwise the
\* object server is set up (get_or_init) with the mutex held
request_name(c, n) ==
    /\ npc[c] = "idle"
    /\ names_lock = "none"
    /\ Len(name_log) < MaxNameCalls
    /\ IF n \in registered_names
       THEN /\ name_log' = Append(name_log, Returned("request", n, "Ok", FALSE))
            /\ UNCHANGED <<names_lock, npc, nname, os_cell, os_task, active,
                           since, pos>>
       ELSE /\ names_lock' = c
            /\ npc' = [npc EXCEPT ![c] = "object_server"]
            /\ nname' = [nname EXCEPT ![c] = n]
            /\ IF request_name_ensures_server
               THEN object_server_get_or_init
               ELSE UNCHANGED <<os_cell, os_task, active, since, pos>>
            /\ UNCHANGED name_log
    /\ UNCHANGED <<connVars, taskVars, rxVars, uGot, scopeVars, sigVars, cacheVars,
                   propVars, matchVars, newVars, fdVars, tailVars, os_lock, os_readers, spawned,
                   dispatched, request_sent_at, registered_names, bus_owner>>

\* request_name: object_server().await has returned the read guard, which
\* is dropped at once, and RequestName is called
request_name_call(c) ==
    /\ npc[c] = "object_server"
    /\ request_name_ensures_server => read_acquirable(os_lock)
    /\ npc' = [npc EXCEPT ![c] = "request_call"]
    /\ request_sent_at' = Append(request_sent_at, Len(inbox))
    /\ UNCHANGED <<coreVars, sigVars, cacheVars, propVars, matchVars, newVars, fdVars, tailVars,
                   os_cell, os_task, os_lock, os_readers, spawned, dispatched,
                   registered_names, names_lock, nname, bus_owner, name_log>>

\* request_name: the bus answers RequestName(ReplaceExisting | DoNotQueue).
\* An error returns by `?`; any reply (PrimaryOwner, AlreadyOwner, or Exists
\* when the owner allows no replacement) records the name.
request_name_reply(c, replaced) ==
    /\ npc[c] = "request_call"
    /\ names_lock' = "none"
    /\ npc' = [npc EXCEPT ![c] = "idle"]
    /\ IF nname[c] = Bus
       THEN /\ name_log' = Append(name_log, Returned("request", nname[c], "Err", TRUE))
            /\ UNCHANGED <<registered_names, bus_owner>>
       ELSE /\ name_log' = Append(name_log, Returned("request", nname[c], "Ok", TRUE))
            /\ registered_names' = registered_names \cup {nname[c]}
            /\ bus_owner' = [bus_owner EXCEPT ![nname[c]] =
                                IF @ = "other" /\ ~replaced THEN "other" ELSE "self"]
    /\ UNCHANGED <<coreVars, sigVars, cacheVars, propVars, matchVars, lateVars, nname>>

\* Connection::release_name up to the bus call: under the mutex, Ok(false)
\* for a name that is not recorded; otherwise the name is removed and
\* ReleaseName is called with the mutex held
release_name(c, n) ==
    /\ npc[c] = "idle"
    /\ names_lock = "none"
    /\ Len(name_log) < MaxNameCalls
    /\ IF n \notin registered_names
       THEN /\ name_log' = Append(name_log, Returned("release", n, "false", FALSE))
            /\ UNCHANGED <<names_lock, npc, nname, registered_names>>
       ELSE /\ registered_names' = names_remove(registered_names, n)
            /\ names_lock' = c
            /\ npc' = [npc EXCEPT ![c] = "release_call"]
            /\ nname' = [nname EXCEPT ![c] = n]
            /\ UNCHANGED name_log
    /\ UNCHANGED <<coreVars, sigVars, cacheVars, propVars, matchVars, lateVars, bus_owner>>

\* release_name: the bus answers ReleaseName; any reply (Released,
\* NonExistent, NotOwner) maps to Ok(true), an error to Err
release_name_reply(c) ==
    /\ npc[c] = "release_call"
    /\ names_lock' = "none"
    /\ npc' = [npc EXCEPT ![c] = "idle"]
    /\ IF nname[c] = Bus
       THEN /\ name_log' = Append(name_log, Returned("release", nname[c], "Err", TRUE))
            /\ UNCHANGED bus_owner
       ELSE /\ name_log' = Append(name_log, Returned("release", nname[c], "true", TRUE))
            /\ bus_owner' = [bus_owner EXCEPT ![nname[c]] =
                                IF @ = "self" THEN "none" ELSE @]
    /\ UNCHANGED <<coreVars, sigVars, cacheVars, propVars, matchVars, lateVars, nname,
                   registered_names>>

\* another connection acquires a name nobody owns
other_acquires(n) ==
    /\ n # Bus
    /\ bus_owner[n] = "none"
    /\ bus_owner' = [bus_owner EXCEPT ![n] = "other"]
    /\ UNCHANGED <<coreVars, sigVars, cacheVars, propVars, matchVars, lateVars,
                   registered_names, names_lock, npc, nname, name_log>>

InitNames ==
    /\ registered_names = {}
    /\ names_lock = "none"
    /\ npc = [c \in Callers |-> "idle"]
    /\ nname = [c \in Callers |-> Bus]
    /\ bus_owner = [n \in Names |-> IF n = Bus THEN "other" ELSE "none"]
    /\ name_log = <<>>

InitCache ==
    /\ cache_cfg = "unbuilt"
    /\ cache_task = "none"
    /\ values = [n \in PropNames |-> NoEntry]
    /\ listener = [n \in PropNames |-> "none"]
    /\ ready_ch = <<>>
    /\ ready_closed = FALSE
    /\ ready_ret = "none"
    /\ last_seq = 0
    /\ right_done = FALSE
    /\ applied = <<>>

InitSignal ==
    /\ stream_state = "none"
    /\ src_bus_name = ""
    /\ src_query = None
    /\ src_unique_name = ""
    /\ sig_member = ""
    /\ polled = 0
    /\ taken = <<>>
    /\ yielded = <<>>
    /\ sig_last_seq = 0
    /\ orderings = <<>>
    /\ none_before = {}

InitProp ==
    /\ prop_stream = "none"
    /\ prop_name = ""
    /\ items = 0
    /\ created_at = 0
    /\ yielded_at = 0
    /\ lock = "free"
    /\ get_pc = "idle"
    /\ got = 0

InitObjectServer ==
    /\ os_cell = "unset"
    /\ os_task = "none"
    /\ os_lock = "none"
    /\ os_readers = {}
    /\ spawned = {}
    /\ dispatched = <<>>
    /\ request_sent_at = <<>>

InitWatcher ==
    /\ dest_kind = "none"
    /\ dest_name_watcher = ""
    /\ watcher_by = "none"
    /\ proxy_dropped = FALSE
    /\ dpc = [u \in Users |-> "idle"]
    /\ ready_log = <<>>
    /\ hpc = [u \in Users |-> "idle"]
    /\ hcall = [u \in Users |-> [via |-> "h1", expr |-> "e1", key |-> 0]]
    /\ spc = [u \in Users |-> "idle"]

InitProxy ==
    /\ InitSignal /\ InitCache /\ InitProp /\ InitMatch /\ InitNames
    /\ InitObjectServer /\ InitWatcher

NoResult == [kind |-> "none", seq |-> 0]

InitInner ==
    /\ serial = 1
    /\ assigned = <<>>
    /\ out = <<>>
    /\ wire = <<>>
    /\ pc = [t \in Tasks |-> "idle"]
    /\ op = [t \in Tasks |-> "none"]
    /\ hdr = [t \in Tasks |-> None]
    /\ ret = [t \in Tasks |-> 0]
    /\ res = [t \in Tasks |-> NoResult]
    /\ sock = "open"
    /\ inbox = <<>>
    /\ rxpc = "recv"
    /\ rxerr = "none"
    /\ bq = <<>>
    /\ errq = <<>>
    /\ active = [r \in Receivers |-> FALSE]
    /\ since = [r \in Receivers |-> 0]
    /\ pos = [r \in Receivers |-> 0]
    /\ uGot = <<>>
    /\ hscope = "none"
    /\ alive = [s \in Scopes |-> s = "s1"]
    /\ task = [s \in Scopes |-> "none"]
    /\ handlers = [s \in Scopes |-> <<>>]
    /\ nextKey = [s \in Scopes |-> 1]
    /\ replies = [s \in Scopes |-> {}]
    /\ cur = [s \in Scopes |-> 0]
    /\ futs = [s \in Scopes |-> <<>>]
    /\ tscope = [t \in Tasks |-> "none"]
    /\ regPos = [t \in Tasks |-> 0]
    /\ cb = [t \in Tasks |-> 0]
    /\ InitProxy

\* a peer-to-peer connection that Connection::new has returned
Init ==
    /\ InitInner
    /\ bus_conn = FALSE
    /\ conn_state = "ready"
    /\ unique_name = ""
    /\ unique_name_sets = 0
    /\ cap_unix_fd = TRUE
    /\ fds = [t \in Tasks |-> 0]

\* a bus connection that Connection::new has returned
InitBus ==
    /\ InitInner
    /\ bus_conn = TRUE
    /\ conn_state = "ready"
    /\ unique_name = ":1.1"
    /\ unique_name_sets = 1
    /\ cap_unix_fd = TRUE
    /\ fds = [t \in Tasks |-> 0]

\* a peer-to-peer connection whose peer did not negotiate fd-passing
InitNoFdPassing ==
    /\ InitInner
    /\ bus_conn = FALSE
    /\ conn_state = "ready"
    /\ unique_name = ""
    /\ unique_name_sets = 0
    /\ cap_unix_fd = FALSE
    /\ fds = [t \in Tasks |-> 0]

\* an authenticated socket, before Connection::new
InitAuthenticated ==
    /\ InitInner
    /\ bus_conn \in BOOLEAN
    /\ conn_state = "authenticated"
    /\ unique_name = ""
    /\ unique_name_sets = 0
    /\ cap_unix_fd = TRUE
    /\ fds = [t \in Tasks |-> 0]

(***************************************************************************)
(* Connection::new and Connection::hello_bus                               *)
(***************************************************************************)
\* what the bus answers to Hello
HelloMsgs == { Reply("MethodReturn", 1), Reply("Error", 1) }

\* if !bus_connection { return Ok(connection); }
new_skips_hello(b) == FALSE
new_needs_hello(b) == b

\* Connection::new up to its first return or to hello_bus: the receiver
\* task is running, a peer-to-peer connection is returned at once
connection_new ==
    /\ conn_state = "authenticated"
    /\ conn_state' = IF new_needs_hello(bus_conn) THEN "helloing" ELSE "ready"
    /\ UNCHANGED <<connVars, taskVars, rxVars, rcvVars, scopeVars, sigVars,
                   cacheVars, propVars, matchVars, nameVars, bus_conn,
                   unique_name, unique_name_sets, osVars, fdVars, tailVars>>

\* hello_bus: dbus_proxy.hello(), a call_method of the connection
hello_call ==
    /\ conn_state = "helloing"
    /\ call_method("t1")

\* hello_bus after the call: res? returns the error of a failed Hello from
\* Connection::new, otherwise unique_name.set(name).expect(..) and
\* Ok(connection)
hello_returned ==
    /\ conn_state = "helloing"
    /\ pc["t1"] = "done"
    /\ IF res["t1"].kind # "Ok"
       THEN /\ conn_state' = "failed"
            /\ UNCHANGED <<unique_name, unique_name_sets>>
       ELSE IF unique_name # ""
       THEN /\ conn_state' = "panicked"
            /\ UNCHANGED <<unique_name, unique_name_sets>>
       ELSE /\ conn_state' = "ready"
            /\ unique_name' = ":1.1"
            /\ unique_name_sets' = unique_name_sets + 1
    /\ UNCHANGED <<connVars, taskVars, rxVars, rcvVars, scopeVars, sigVars,
                   cacheVars, propVars, matchVars, nameVars, bus_conn,
                   osVars, fdVars, tailVars>>

(***************************************************************************)
(* SpecNew: Connection::new on an authenticated socket, of a bus or of a   *)
(* peer.                                                                   *)
(***************************************************************************)
NextNew ==
    \/ connection_new
    \/ hello_call
    \/ send_message("t1")
    \/ start_send("t1")
    \/ poll_flush("t1")
    \/ call_poll_msg("t1")
    \/ \E m \in HelloMsgs : receive_msg_ok(m)
    \/ broadcast_msg
    \/ hello_returned

SpecNew == InitAuthenticated /\ [][NextNew]_vars

(***************************************************************************)
(* SpecSerial: concurrent senders on one connection.                       *)
(***************************************************************************)
NextSerial ==
    \/ \E t \in Tasks : NewMessage(t)
    \/ \E t \in Tasks : assign_serial_num(t)
    \/ \E t \in Tasks : send_message(t)
    \/ \E t \in Tasks : start_send(t)
    \/ \E t \in Tasks : poll_flush(t)

SpecSerial == Init /\ [][NextSerial]_vars

(***************************************************************************)
(* SpecFds: messages with and without file descriptors are sent over a     *)
(* connection with or without fd-passing.                                  *)
(***************************************************************************)
NextFds ==
    \/ \E t \in Tasks, k \in 0..MaxFds : NewMessageWithFds(t, k)
    \/ \E t \in Tasks : send_message(t)
    \/ \E t \in Tasks : start_send(t)
    \/ \E t \in Tasks : poll_flush(t)

SpecFds == (Init \/ InitNoFdPassing) /\ [][NextFds]_vars

(***************************************************************************)
(* SpecCall: concurrent call_method_raw calls, a user's MessageStream and  *)
(* the receiver task.                                                      *)
(***************************************************************************)
NextCall ==
    \/ \E t \in Tasks : call_method(t)
    \/ \E t \in Tasks : send_message(t)
    \/ \E t \in Tasks : start_send(t)
    \/ \E t \in Tasks : poll_flush(t)
    \/ \E t \in Tasks : call_poll_msg(t)
    \/ \E t \in Tasks : call_poll_err(t)
    \/ \E m \in CallMsgs : receive_msg_ok(m)
    \/ receive_msg_err
    \/ error_send
    \/ broadcast_msg

SpecCall == Init /\ [][NextCall]_vars

(***************************************************************************)
(* SpecClose: calls pending while the peer closes the socket. The executor *)
(* is fair: every task that can run is eventually run.                     *)
(***************************************************************************)
NextClose ==
    \/ \E t \in Tasks : call_method(t)
    \/ \E t \in Tasks : send_message(t)
    \/ \E t \in Tasks : start_send(t)
    \/ \E t \in Tasks : poll_flush(t)
    \/ \E t \in Tasks : call_poll_msg(t)
    \/ \E t \in Tasks : call_poll_err(t)
    \/ \E m \in CloseMsgs : receive_msg_ok(m)
    \/ receive_msg_err
    \/ error_send
    \/ broadcast_msg
    \/ socket_close

SpecClose ==
    /\ Init /\ [][NextClose]_vars
    /\ \A t \in Tasks : WF_vars(send_message(t))
    /\ \A t \in Tasks : WF_vars(start_send(t))
    /\ \A t \in Tasks : WF_vars(poll_flush(t))
    /\ \A t \in Tasks : WF_vars(call_poll_msg(t))
    /\ \A t \in Tasks : WF_vars(call_poll_err(t))
    /\ WF_vars(receive_msg_err)
    /\ WF_vars(error_send)
    /\ WF_vars(broadcast_msg)

(***************************************************************************)
(* SpecStream: one call_method beside a MessageStream the user holds, as   *)
(* in test_unix_p2p.                                                       *)
(***************************************************************************)
NextStream ==
    \/ call_method("t1")
    \/ send_message("t1")
    \/ start_send("t1")
    \/ poll_flush("t1")
    \/ call_poll_msg("t1")
    \/ \E m \in StreamMsgs : receive_msg_ok(m)
    \/ broadcast_msg
    \/ message_stream_new
    \/ message_stream_next

SpecStream == Init /\ [][NextStream]_vars

(***************************************************************************)
(* SpecScope: two scopes of one peer-to-peer connection with signal        *)
(* handlers and a dispatch_call on either.                                 *)
(***************************************************************************)
NextScope ==
    \/ new_scope
    \/ drop_scope
    \/ \E h \in Handles, f \in ScopeFilters : add_signal_handler(h, f)
    \/ \E h \in Handles : dispatch_call("t1", h)
    \/ start_send("t1")
    \/ poll_flush("t1")
    \/ \E s \in Scopes : run(s)
    \/ \E s \in Scopes, i \in 1..MaxHandlers : future_done(s, i)
    \/ \E m \in ScopeMsgs : receive_msg_ok(m)
    \/ broadcast_msg

SpecScope == Init /\ [][NextScope]_vars

(***************************************************************************)
(* SpecSignal: one SignalStream of a proxy on a bus connection.            *)
(***************************************************************************)
NextSignal ==
    \/ \E dest \in {":1.1", WellKnown}, mem \in {"", "Sig"} :
          receive_signals(dest, mem)
    \/ \E m \in SigMsgs : signal_stream_poll(m)

SpecSignal == InitBus /\ [][NextSignal]_vars

(***************************************************************************)
(* SpecCache: a proxy with a property cache on a peer-to-peer connection;  *)
(* the GetAll call of the cache task is the call of task "t1".             *)
(***************************************************************************)
NextCache ==
    \/ \E c \in {"yes", "no"} : proxy_new(c)
    \/ get_property_cache
    \/ cache_subscribe
    \/ cache_task = "subscribed" /\ call_method("t1")
    \/ send_message("t1")
    \/ start_send("t1")
    \/ poll_flush("t1")
    \/ call_poll_msg("t1")
    \/ cache_get_all_returned
    \/ cache_join_next
    \/ ready
    \/ \E m \in CacheMsgs : receive_msg_ok(m)
    \/ broadcast_msg

SpecCache == Init /\ [][NextCache]_vars

(***************************************************************************)
(* SpecPopulate: the population of a property cache with a peer that sends *)
(* any number of PropertiesChanged signals after the task has subscribed   *)
(* and answers the GetAll call once it is on the wire; the tasks, the      *)
(* receiver task and the peer's answer are scheduled fairly.               *)
(***************************************************************************)
\* the answer of the peer to GetAll was received
ReplyReceived ==
    \E n \in 1..Len(inbox) : inbox[n].type \in {"MethodReturn", "Error"}

\* the peer emits a signal before its answer is received
peer_signal ==
    /\ cache_task = "subscribed"
    /\ ~ReplyReceived
    /\ Len(inbox) < MaxRecv - 1
    /\ receive_msg_ok(PropertiesChanged(ProxyInterface, { <<"foo", 2>> }, {}))

\* the receiver task receives the peer's answer to the call on the wire
peer_reply(m) ==
    /\ wire # <<>>
    /\ ~ReplyReceived
    /\ receive_msg_ok(m)

NextPopulate ==
    \/ proxy_new("yes")
    \/ get_property_cache
    \/ cache_subscribe
    \/ cache_task = "subscribed" /\ call_method("t1")
    \/ send_message("t1")
    \/ start_send("t1")
    \/ poll_flush("t1")
    \/ call_poll_msg("t1")
    \/ cache_get_all_returned
    \/ cache_join_next
    \/ ready
    \/ peer_signal
    \/ \E m \in {GetAllReply(GetAllValues), GetAllError} : peer_reply(m)
    \/ broadcast_msg

SpecPopulate ==
    /\ Init
    /\ [][NextPopulate]_vars
    /\ WF_vars(get_property_cache)
    /\ WF_vars(cache_subscribe)
    /\ WF_vars(cache_task = "subscribed" /\ call_method("t1"))
    /\ WF_vars(send_message("t1"))
    /\ WF_vars(start_send("t1"))
    /\ WF_vars(poll_flush("t1"))
    /\ WF_vars(call_poll_msg("t1"))
    /\ WF_vars(cache_get_all_returned)
    /\ WF_vars(cache_join_next)
    /\ WF_vars(ready)
    /\ WF_vars(\E m \in {GetAllReply(GetAllValues), GetAllError} : peer_reply(m))
    /\ WF_vars(broadcast_msg)

(***************************************************************************)
(* SpecProps: a proxy, with or without a property cache, whose property    *)
(* "foo" is watched through a PropertyStream; the GetAll call of the cache *)
(* task is the call of task "t1".                                          *)
(***************************************************************************)
NextProps ==
    \/ \E c \in {"yes", "no"} : proxy_new(c)
    \/ receive_property_changed("foo")
    \/ cache_subscribe
    \/ cache_task = "subscribed" /\ call_method("t1")
    \/ send_message("t1")
    \/ start_send("t1")
    \/ poll_flush("t1")
    \/ call_poll_msg("t1")
    \/ cache_get_all_returned
    \/ cache_join_next
    \/ \E m \in PropMsgs : receive_msg_ok(m)
    \/ broadcast_msg
    \/ property_stream_poll
    \/ property_stream_yield
    \/ get_raw_start
    \/ \E a \in GetAnswers : get_raw_answered(a)
    \/ \E o \in ReentrantRead : get_raw_read(o)
    \/ drop_wrapper

SpecProps == Init /\ [][NextProps]_vars

(***************************************************************************)
(* SpecMatch: three users of two match expressions on a bus connection     *)
(* subscribe and unsubscribe concurrently. SpecMatchFair adds the          *)
(* executor's fairness: a spawned removal task is run, the mutex is handed *)
(* to its waiters, and the bus answers.                                    *)
(***************************************************************************)
NextMatch ==
    \/ \E u \in Users, e \in Exprs : add_match(u, e)
    \/ \E u \in Users, ok \in BOOLEAN : add_match_reply(u, ok)
    \/ \E u \in Users : drop_stream(u)
    \/ \E u \in Users : remove_match_direct(u)
    \/ \E u \in Users : removal_task(u)
    \/ \E u \in Users : remove_match_reply(u)

SpecMatch == InitBus /\ [][NextMatch]_vars

SpecMatchFair ==
    /\ SpecMatch
    /\ \A u \in Users : SF_vars(removal_task(u))
    /\ \A u \in Users : WF_vars(remove_match_reply(u))
    /\ \A u \in Users : WF_vars(\E ok \in BOOLEAN : add_match_reply(u, ok))

(***************************************************************************)
(* SpecMatchSeq: add_match and remove_match called one after the other,    *)
(* each call awaited before the next, with a bus call that may fail.       *)
(***************************************************************************)
NextMatchSeq ==
    \/ \E u \in Users, e \in Exprs : add_match(u, e)
    \/ \E u \in Users, ok \in BOOLEAN : add_match_reply(u, ok)
    \/ \E u \in Users : remove_match_direct(u)
    \/ \E u \in Users : remove_match_reply(u)
    \/ \E u \in Users : remove_match_error(u)

SpecMatchSeq == InitBus /\ [][NextMatchSeq]_vars

(***************************************************************************)
(* SpecWatcher: two concurrent receive_signal calls on one proxy, on or    *)
(* off the bus, beside a stream of another proxy that uses the same        *)
(* expression; then the proxy is dropped.                                  *)
(***************************************************************************)
NextWatcher ==
    \/ \E k \in {"wellknown", "unique"} : proxy_inner_new(k)
    \/ \E u \in Watchers : watcher_call(u)
    \/ \E u \in Watchers : watcher_add_match(u)
    \/ \E u \in Users, ok \in BOOLEAN : add_match_reply(u, ok)
    \/ \E u \in Watchers : watcher_set(u)
    \/ \E u \in Watchers : watcher_remove_match(u)
    \/ \E u \in Watchers : watcher_removed(u)
    \/ drop_proxy
    \/ add_match("u3", WatchExpr)
    \/ drop_stream("u3")
    \/ \E u \in Users : removal_task(u)
    \/ \E u \in Users : remove_match_reply(u)

SpecWatcher == (Init \/ InitBus) /\ [][NextWatcher]_vars

(***************************************************************************)
(* SpecHandlerMatch: two callers register and remove a signal handler each *)
(* in either scope of a connection, on or off the bus, with a bus that may *)
(* fail a call, beside a signal stream that uses the first expression.     *)
(***************************************************************************)
NextHandlerMatch ==
    \/ new_scope
    \/ \E u \in Registrants, h \in Handles, e \in Exprs : handler_start(u, h, e)
    \/ \E u \in Registrants : handler_add_match(u)
    \/ \E u \in Users, ok \in BOOLEAN : add_match_reply(u, ok)
    \/ \E u \in Registrants : handler_insert(u)
    \/ \E u \in Registrants : handler_remove(u)
    \/ \E u \in Registrants : handler_remove_match(u)
    \/ \E u \in Users : remove_match_reply(u)
    \/ \E u \in Users : remove_match_error(u)
    \/ \E u \in Registrants : handler_removed(u)
    \/ bus_conn /\ add_match("u3", "e1")
    \/ drop_stream("u3")
    \/ removal_task("u3")

SpecHandlerMatch == (Init \/ InitBus) /\ [][NextHandlerMatch]_vars

(***************************************************************************)
(* SpecSubscribe: receive_signals called on two proxies with the same      *)
(* expression on a bus connection whose socket the peer may close; the     *)
(* streams are dropped later.                                              *)
(***************************************************************************)
NextSubscribe ==
    \/ \E u \in Registrants : subscribe_add_match(u)
    \/ \E u \in Users, ok \in BOOLEAN : add_match_reply(u, ok)
    \/ \E u \in Registrants : subscribe_send_query(u)
    \/ \E u \in Registrants : subscribe_drop(u)
    \/ \E u \in Users : removal_task(u)
    \/ \E u \in Users : remove_match_reply(u)
    \/ socket_close

SpecSubscribe == InitBus /\ [][NextSubscribe]_vars

(***************************************************************************)
(* SpecNames: two callers request and release names on a bus connection.   *)
(***************************************************************************)
NextNames ==
    \/ \E c \in Callers, n \in Names : request_name(c, n)
    \/ \E c \in Callers : request_name_call(c)
    \/ \E c \in Callers, r \in BOOLEAN : request_name_reply(c, r)
    \/ \E c \in Callers, n \in Names : release_name(c, n)
    \/ \E c \in Callers : release_name_reply(c)
    \/ \E n \in Names : other_acquires(n)

SpecNames == InitBus /\ [][NextNames]_vars

(***************************************************************************)
(* SpecObjectServer: a service on a bus connection requests its name and   *)
(* mutates its ObjectServer while method calls and receive errors arrive.  *)
(***************************************************************************)
NextObjectServer ==
    \/ request_name("c1", "com.example.A")
    \/ request_name_call("c1")
    \/ \E r \in BOOLEAN : request_name_reply("c1", r)
    \/ object_server_mut
    \/ object_server_mut_acquire
    \/ drop_guard
    \/ \E m \in ObjMsgs : receive_msg_ok(m)
    \/ receive_msg_err
    \/ error_send
    \/ broadcast_msg
    \/ os_stream_msg
    \/ os_stream_err
    \/ \E n \in 1..MaxRecv : dispatch_begin(n)
    \/ \E n \in 1..MaxRecv : dispatch_end(n)

SpecObjectServer == InitBus /\ [][NextObjectServer]_vars

(***************************************************************************)
(* SpecDispatchFair: the object server of a bus connection dispatching     *)
(* method calls while a caller takes and drops the object_server_mut       *)
(* guard; the socket delivers messages only.                               *)
(***************************************************************************)
NextDispatch ==
    \/ request_name("c1", "com.example.A")
    \/ object_server_mut
    \/ object_server_mut_acquire
    \/ drop_guard
    \/ \E m \in ObjMsgs : receive_msg_ok(m)
    \/ broadcast_msg
    \/ os_stream_msg
    \/ \E n \in 1..MaxRecv : dispatch_begin(n)
    \/ \E n \in 1..MaxRecv : dispatch_end(n)

\* the executor runs every spawned dispatch task, whose read().await is
\* served whenever the lock is free again and again; the caller of
\* object_server_mut gets the guard and, as the method's caveat asks, does
\* not keep it
SpecDispatchFair ==
    /\ InitBus /\ [][NextDispatch]_vars
    /\ \A n \in 1..MaxRecv : SF_vars(dispatch_begin(n))
    /\ \A n \in 1..MaxRecv : WF_vars(dispatch_end(n))
    /\ WF_vars(object_server_mut_acquire)
    /\ WF_vars(drop_guard)

(***************************************************************************)
(* SpecReplies: two dispatch_call on the connection's scope while the peer *)
(* sends replies, some of them twice and some for no call.                 *)
(***************************************************************************)
ReplyMsgs ==
    { Reply("MethodReturn", 1), Reply("Error", 2), Reply("MethodReturn", 3) }

NextReplies ==
    \/ \E t \in Tasks : dispatch_call(t, "h1")
    \/ \E t \in Tasks : start_send(t)
    \/ \E t \in Tasks : poll_flush(t)
    \/ run("s1")
    \/ \E i \in 1..MaxHandlers : future_done("s1", i)
    \/ \E m \in ReplyMsgs : receive_msg_ok(m)
    \/ broadcast_msg

SpecReplies == Init /\ [][NextReplies]_vars

(***************************************************************************)
(* SpecDispatchErr: a dispatch_call on the connection's scope over a       *)
(* socket that the peer may close before the message is flushed.           *)
(***************************************************************************)
NextDispatchErr ==
    \/ dispatch_call("t1", "h1")
    \/ start_send("t1")
    \/ poll_flush("t1")
    \/ socket_close
    \/ run("s1")
    \/ \E i \in 1..MaxHandlers : future_done("s1", i)
    \/ receive_msg_ok(Reply("MethodReturn", 1))
    \/ broadcast_msg

SpecDispatchErr == Init /\ [][NextDispatchErr]_vars

(***************************************************************************)
(* SpecOrdered: a SignalStream polled through Stream and through           *)
(* OrderedStream, with bounds that are sequence numbers of received        *)
(* messages.                                                               *)
(***************************************************************************)
OrderedMsgs ==
    { SignalFrom(":1.1", ProxyPath, ProxyInterface, "Sig"),
      SignalFrom(":1.2", ProxyPath, ProxyInterface, "Sig"),
      SignalFrom(":1.1", ProxyPath, ProxyInterface, "Other"),
      BusMsg("MethodReturn", 1, "", "", "", Bus, Body(TRUE, "", ":1.1")) }

NextOrdered ==
    \/ \E dest \in {":1.1", WellKnown}, mem \in {"", "Sig"} :
          receive_signals(dest, mem)
    \/ \E m \in OrderedMsgs : signal_stream_poll(m)
    \/ \E b \in 1..(MaxRecv + 1), m \in OrderedMsgs : poll_next_before(b, m)

SpecOrdered == InitBus /\ [][NextOrdered]_vars

(***************************************************************************)
(* SpecErrors: a connection whose only consumer is the task of its scope,  *)
(* which reads the broadcast receiver and not the error channel, while     *)
(* the peer sends signals and undecodable messages.                        *)
(***************************************************************************)
NextErrors ==
    \/ add_signal_handler("h1", AnyMember)
    \/ run("s1")
    \/ \E i \in 1..MaxHandlers : future_done("s1", i)
    \/ receive_msg_ok(ASignalForYou)
    \/ receive_msg_err
    \/ error_send
    \/ broadcast_msg

\* the executor runs the receiver task and the scope task whenever they
\* can make a step, and the handlers' futures complete
SpecErrors ==
    /\ Init /\ [][NextErrors]_vars
    /\ WF_vars(run("s1"))
    /\ \A i \in 1..MaxHandlers : WF_vars(future_done("s1", i))
    /\ WF_vars(error_send)
    /\ WF_vars(broadcast_msg)

(***************************************************************************)
(* SpecHandlers: one scope whose handlers are added and removed while      *)
(* signals arrive.                                                         *)
(***************************************************************************)
NextHandlers ==
    \/ \E f \in HandlerFilters : add_signal_handler("h1", f)
    \/ \E k \in 1..MaxHandlers : remove_signal_handler("h1", k)
    \/ run("s1")
    \/ \E i \in 1..MaxHandlers : future_done("s1", i)
    \/ \E m \in HandlerMsgs : receive_msg_ok(m)
    \/ broadcast_msg

SpecHandlers == Init /\ [][NextHandlers]_vars

(***************************************************************************)
(* Properties of the serial counter and assign_serial_num.                 *)
(***************************************************************************)
\* the assign_serial_num calls that found no serial in the header
FreshCalls == SelectSeq(assigned, LAMBDA e : e.fresh)

\* the serials of the messages handed to the raw connection, in enqueue order
SentSerials == wire \o out

\* C3 as stated: the values returned by ANY successive assign_serial_num
\* calls on the connection increase by exactly 1 from one call to the next.
C3_AnyCallsIncreaseByOne ==
    \A i \in 2..Len(assigned) : assigned[i].val = assigned[i - 1].val + 1

\* C3 amended: the values returned by the calls made on messages that carry
\* no serial yet (each one next_serial call) increase by exactly 1 from one
\* such call to the next; a call
\* on a message that already carries a serial returns the value the latest
\* earlier call on that message returned.
C3_FreshCallsIncreaseByOne ==
    /\ \A i \in 2..Len(FreshCalls) :
         FreshCalls[i].val = FreshCalls[i - 1].val + 1
    /\ \A i \in 1..Len(assigned) :
         ~assigned[i].fresh =>
            \E j \in 1..(i - 1) :
               /\ assigned[j].task = assigned[i].task
               /\ assigned[j].val = assigned[i].val
               /\ \A k \in (j + 1)..(i - 1) : assigned[k].task # assigned[i].task

\* C3 witness: three next_serial calls in a row and a call on a message
\* that already had its serial
C3_Witness ==
    /\ Len(FreshCalls) >= 3
    /\ \E i \in 1..Len(assigned) : ~assigned[i].fresh

\* C4: with concurrent senders, the serials of the messages handed to the
\* raw connection are pairwise distinct, and every serial the connection
\* assigns is strictly greater than every serial it assigned before.
C4_SerialsUniqueAndIncreasing ==
    /\ \A i, j \in 1..Len(SentSerials) :
         i # j => SentSerials[i] # SentSerials[j]
    /\ \A i, j \in 1..Len(assigned) :
         (j < i /\ assigned[i].fresh) => assigned[j].val < assigned[i].val
    /\ \A t \in Tasks : pc[t] \in {"assigned", "queued"} => hdr[t].v < serial

\* C4 witness: two senders interleave so that the message with the greater
\* serial is enqueued first
C4_Witness ==
    \E i, j \in 1..Len(SentSerials) : i < j /\ SentSerials[i] > SentSerials[j]

\* C5: assign_serial_num sets the header's serial iff it has none. A call on
\* a message with a serial returns it and changes neither the header nor the
\* counter; a call on a message without one stores the counter's value in
\* the header, returns it, and advances the counter by exactly one.
C5_AssignIffAbsent ==
    [][Len(assigned') = Len(assigned) + 1 =>
         LET e == assigned'[Len(assigned')]
             t == e.task
         IN  IF hdr[t].some
             THEN /\ e.val = hdr[t].v
                  /\ hdr'[t] = hdr[t]
                  /\ serial' = serial
             ELSE /\ e.val = serial
                  /\ hdr'[t] = Some(serial)
                  /\ serial' = serial + 1]_vars

\* C5 witness: both cases of assign_serial_num have happened
C5_Witness ==
    /\ \E i \in 1..Len(assigned) : ~assigned[i].fresh
    /\ \E i \in 1..Len(assigned) : assigned[i].fresh /\ assigned[i].val > 1

(***************************************************************************)
(* Properties of call_method_raw.                                          *)
(***************************************************************************)
\* a message that can answer a call with serial s
IsReplyTo(m, s) == m.type \in {"MethodReturn", "Error"} /\ m.reply_serial = s

\* the messages receive_msg has finished broadcasting
Processed == IF rxpc = "broadcast" THEN Len(inbox) - 1 ELSE Len(inbox)

\* C1: a call resolves with the first message, among those broadcast since
\* its stream was created (which is before its message is sent), that is a
\* MethodReturn or an Error whose reply_serial is the serial of the call's
\* own message: Ok for a MethodReturn, MethodError for an Error. No other
\* message resolves it, and while it is pending no such message has been
\* passed over.
C1_CallResolvesWithOwnReply ==
    \A t \in Tasks :
       /\ pc[t] \in {"subscribed", "assigned", "queued"} =>
             active[t] /\ pos[t] = since[t]
       /\ pc[t] \in {"assigned", "queued", "sent", "done"} /\ op[t] = "call" =>
             ret[t] = hdr[t].v
       /\ pc[t] = "sent" /\ op[t] = "call" =>
             /\ active[t]
             /\ \A j \in (since[t] + 1)..pos[t] :
                   ~IsReplyTo(inbox[bq[j]], ret[t])
       /\ pc[t] = "done" /\ op[t] = "call" =>
             /\ res[t].kind \in {"Ok", "MethodError"}
             /\ pos[t] > since[t]
             /\ bq[pos[t]] = res[t].seq
             /\ inbox[res[t].seq].reply_serial = hdr[t].v
             /\ res[t].kind = "Ok" <=> inbox[res[t].seq].type = "MethodReturn"
             /\ res[t].kind = "MethodError" <=> inbox[res[t].seq].type = "Error"
             /\ \A j \in (since[t] + 1)..(pos[t] - 1) :
                   ~IsReplyTo(inbox[bq[j]], ret[t])

\* C1 witness: two calls are resolved, one with an error and one with a
\* reply; the reply to the later call arrived first, and the earlier call
\* passed over it
C1_Witness ==
    \E t, u \in Tasks :
       /\ pc[t] = "done" /\ pc[u] = "done"
       /\ res[t].kind = "MethodError" /\ res[u].kind = "Ok"
       /\ ret[t] < ret[u]
       /\ since[t] < res[u].seq /\ res[u].seq < res[t].seq

\* C2 as stated: once the socket is closed, every pending call_method
\* eventually completes (with BrokenPipe unless its reply had arrived).
C2_PendingCallCompletesAfterClose ==
    \A t \in Tasks :
       [](sock = "closed" /\ pc[t] = "sent" => <>(pc[t] = "done"))

\* C10: a MessageStream loses nothing and keeps the arrival order: what it
\* has yielded followed by what it still holds is exactly the run of
\* messages broadcast since it was created. In particular, when a call
\* resolves with its reply, a stream created before the call holds or has
\* yielded every message that arrived up to the reply.
C10_StreamLosesNothing ==
    /\ active["u"] =>
          LET q == uGot \o SubSeq(bq, pos["u"] + 1, Len(bq))
          IN  /\ Len(q) = Processed - since["u"]
              /\ \A i \in 1..Len(q) : q[i] = since["u"] + i
              /\ \A t \in Tasks :
                    (pc[t] = "done" /\ since["u"] <= since[t]) =>
                       /\ res[t].kind = "Ok"
                       /\ inbox[res[t].seq] = Reply("MethodReturn", ret[t])
                       /\ \A n \in (since["u"] + 1)..res[t].seq :
                             q[n - since["u"]] = n
    /\ \A t \in Tasks : active[t] =>
          /\ Len(bq) = Processed
          /\ \A i \in (pos[t] + 1)..Len(bq) : bq[i] = i

\* C10 witness: the call has resolved with the reply while the stream,
\* created before the call and never polled, holds the signal that arrived
\* before the reply
C10_Witness ==
    /\ pc["t1"] = "done" /\ res["t1"].kind = "Ok"
    /\ active["u"] /\ uGot = <<>> /\ since["u"] <= since["t1"]
    /\ res["t1"].seq > since["u"] + 1
    /\ inbox[res["t1"].seq - 1] = ASignalForYou
    /\ bq[pos["u"] + 1] < res["t1"].seq


(***************************************************************************)
(* Properties of the scopes.                                               *)
(***************************************************************************)
\* C6: a scope handles the messages one at a time and in arrival order: a
\* step that starts futures is a step that takes a message, it takes a
\* message only when no future of the scope is left, the message is a later
\* one than the last, and every future it starts is for that message.
C6_OneMessageAtATime ==
    [][\A s \in Scopes :
          /\ Len(futs'[s]) > Len(futs[s]) => cur'[s] # cur[s]
          /\ cur'[s] # cur[s] =>
                /\ futs[s] = <<>>
                /\ cur'[s] > cur[s]
                /\ \A i \in 1..Len(futs'[s]) : futs'[s][i].seq = cur'[s]]_vars

\* C6 witness: of the two futures started for one signal the second handler's
\* is the one still running, while the next message waits in the scope's queue
C6_Witness ==
    \E s \in Scopes :
       /\ Len(handlers[s]) = 2
       /\ Len(futs[s]) = 1
       /\ futs[s][1].kind = "signal" /\ futs[s][1].key = 2
       /\ pos[s] < Len(bq)

\* the filter of handler hd accepts signal m: same path, same interface, and
\* same member unless the handler has no member filter
FilterAccepts(hd, m) ==
    /\ hd.path = m.path
    /\ hd.interface = m.interface
    /\ hd.member = "" \/ hd.member = m.member

\* the number of futures in fs started for the handler with key k
RECURSIVE StartedFor(_, _)
StartedFor(fs, k) ==
    IF fs = <<>> THEN 0
    ELSE (IF fs[1].kind = "signal" /\ fs[1].key = k THEN 1 ELSE 0)
         + StartedFor(Tail(fs), k)

\* C7: when a scope takes a signal, each registered handler whose filter
\* accepts it is started exactly once and no other handler is started; when
\* it takes a message that is not a signal, no signal handler is started.
C7_MatchingHandlersStartedOnce ==
    [][\A s \in Scopes :
          (cur'[s] # cur[s]) =>
             IF Front(s).type = "Signal"
             THEN /\ \A i \in 1..Len(handlers[s]) :
                        StartedFor(futs'[s], handlers[s][i].key) =
                           IF FilterAccepts(handlers[s][i], Front(s)) THEN 1 ELSE 0
                  /\ \A j \in 1..Len(futs'[s]) :
                        /\ futs'[s][j].kind = "signal"
                        /\ \E i \in 1..Len(handlers[s]) :
                              handlers[s][i].key = futs'[s][j].key
             ELSE \A j \in 1..Len(futs'[s]) : futs'[s][j].kind # "signal"]_vars

\* C7 witness: a signal has started the handler without member filter and
\* not the handler registered for another member
C7_Witness ==
    /\ Len(handlers["s1"]) = 2
    /\ \E i, j \in 1..2 :
          /\ handlers["s1"][i].member = ""
          /\ handlers["s1"][j].member = "ASignalForYou"
          /\ handlers["s1"][i].path = "/" /\ handlers["s1"][j].path = "/"
          /\ handlers["s1"][i].interface = handlers["s1"][j].interface
          /\ futs["s1"] = <<Future("signal", handlers["s1"][i].key, "h1", cur["s1"])>>
    /\ cur["s1"] > 0
    /\ inbox[cur["s1"]] = Other

\* the first message after position p of the broadcast that scope s has
\* taken and that carries reply_serial n in a message other than a signal
FirstReply(s, p, n) ==
    LET ks == {k \in (p + 1)..pos[s] :
                 inbox[bq[k]].type # "Signal" /\ inbox[bq[k]].reply_serial = n}
    IN  IF ks = {} THEN 0
        ELSE bq[CHOOSE k \in ks : \A l \in ks : k <= l]

\* C8: the reply callback of a dispatch_call runs in the order of its
\* scope: while it runs no other future of the scope does and it is for the
\* message the scope took last; it is in the reply map before the call's
\* message is queued for sending; and while the scope is alive the callback
\* has been started for the first reply the scope took after registration.
C8_ReplyCallbackInScopeOrder ==
    \A t \in Tasks : op[t] = "dispatch" =>
       LET s == tscope[t]
       IN  /\ \A i \in 1..Len(futs[s]) :
                 futs[s][i].kind = "reply" =>
                    /\ Len(futs[s]) = 1
                    /\ futs[s][i].seq = cur[s]
                    /\ cb[t] = cur[s]
           /\ (\E i \in 1..Len(out \o wire) : (out \o wire)[i] = ret[t]) =>
                 \/ \E r \in replies[s] : r.serial = ret[t] /\ r.task = t
                 \/ cb[t] # 0
           /\ alive[s] => cb[t] = FirstReply(s, regPos[t], ret[t])

\* C8 witness: the reply callback runs for a reply that arrived after a
\* signal the scope has handlers for, and the next message waits for it
C8_Witness ==
    \E s \in Scopes :
       /\ alive[s] /\ tscope["t1"] = s
       /\ handlers[s] # <<>>
       /\ Len(futs[s]) = 1 /\ futs[s][1].kind = "reply"
       /\ futs[s][1].seq > 1 /\ inbox[1].type = "Signal"
       /\ regPos["t1"] = 0
       /\ pos[s] < Len(bq)

\* scope s has finished with everything broadcast so far and runs nothing
Caught(s) == task[s] = "running" /\ futs[s] = <<>> /\ pos[s] = Len(bq)

\* scope o holds the broadcast back: its queue is full and it polls for the
\* next message only when its running futures have completed
HoldsBack(o) ==
    /\ active[o] /\ Len(bq) - pos[o] >= MaxQueued
    /\ task[o] = "running" /\ futs[o] # <<>>

\* C9 as stated, the part about waiting: a scope never has to wait for the
\* handlers of another scope before it can start on a message that has been
\* received.
C9_NeverWaitsForOtherScope ==
    \A s, o \in Scopes :
       ~(s # o /\ Caught(s) /\ rxpc = "broadcast" /\ HoldsBack(o))

\* C9: the handle of new_scope has its own scope: what is registered
\* through the first handle is kept and run by the first scope only, what is
\* registered through the new handle by the new scope only; both draw their
\* serials from the one counter, and a scope whose futures are complete
\* takes the next message of its queue whatever the other scope is running.
C9_ScopesAreIndependent ==
    /\ \A s \in Scopes :
          /\ \A i \in 1..Len(futs[s]) : futs[s][i].via = "h1" <=> s = "s1"
          /\ \A i \in 1..Len(handlers[s]) : handlers[s][i].via = "h1" <=> s = "s1"
          /\ \A r \in replies[s] : r.via = "h1" <=> s = "s1"
          /\ (task[s] = "running" /\ futs[s] = <<>> /\ pos[s] < Len(bq)) =>
                ENABLED run(s)
    /\ \A t \in Tasks : op[t] = "dispatch" /\ pc[t] # "idle" =>
          ret[t] = serial - 1

\* C9 witness: the first scope runs a handler for a later message while the
\* handler the second scope started for an earlier message is still running
C9_Witness ==
    /\ futs["s1"] # <<>> /\ futs["s2"] # <<>>
    /\ futs["s1"][1].via = "h1" /\ futs["s2"][1].via = "h2"
    /\ futs["s1"][1].seq > futs["s2"][1].seq


(***************************************************************************)
(* Properties of the proxy.                                                *)
(***************************************************************************)
\* C11: every message a SignalStream has yielded is a signal of the
\* stream's selection (the proxy's path and interface, and the member if one
\* is configured) whose sender is the unique name the stream expected when
\* it filtered the message; and that name is the one the bus last reported
\* for the destination.
C11_YieldsOnlyFromOwner ==
    /\ \A k \in 1..Len(yielded) :
          /\ yielded[k].msg.type = "Signal"
          /\ yielded[k].msg.sender = yielded[k].expected
          /\ yielded[k].msg.path = ProxyPath
          /\ yielded[k].msg.interface = ProxyInterface
          /\ sig_member # "" => yielded[k].msg.member = sig_member
    /\ stream_state = "live" /\ src_bus_name = "" => src_unique_name = ":1.1"

\* C11 witness: the stream of a well-known destination has yielded a signal
\* of the first owner and then, the name having changed hands, a signal of
\* the second
C11_Witness ==
    /\ src_bus_name = WellKnown
    /\ Len(yielded) = 2
    /\ yielded[1].expected = ":1.1" /\ yielded[2].expected = ":1.2"
    /\ yielded[2].msg.sender = ":1.2"


\* the recv_positions broadcast to the cache's signal stream so far
CacheSeen == {bq[k] : k \in (since["ps"] + 1)..Len(bq)}

\* signal m changes or invalidates property n
Touches(m, n) == (\E c \in m.args.changed : c[1] = n) \/ n \in m.args.invalidated

\* the entry of property n after signal m was applied to a cache that has
\* an entry for n
EntryAfter(m, n) ==
    IF \E c \in m.args.changed : c[1] = n
    THEN Entry((CHOOSE c \in m.args.changed : c[1] = n)[2])
    ELSE Entry(0)

\* the applied signals that arrived after the GetAll reply and touch n
LaterTouching(n) ==
    {k \in 1..Len(applied) :
        applied[k] > res["t1"].seq /\ Touches(inbox[applied[k]], n)}

\* C12: the cache task applies the PropertiesChanged signals and the GetAll
\* reply in the order of their arrival: the positions it has applied
\* increase; once it has applied the reply it has applied every signal
\* for the proxy's interface that arrived before the reply; and a property
\* touched by signals that arrived after the reply holds what the last of
\* them left, not the GetAll value.
C12_AppliedInArrivalOrder ==
    /\ \A k \in 1..(Len(applied) - 1) : applied[k] < applied[k + 1]
    /\ right_done =>
          /\ \E k \in 1..Len(applied) : applied[k] = res["t1"].seq
          /\ \A n \in CacheSeen :
                (n < res["t1"].seq /\ cache_accepts(inbox[n])) =>
                   \E k \in 1..Len(applied) : applied[k] = n
          /\ \A n \in PropNames :
                LaterTouching(n) # {} =>
                   LET k == CHOOSE k \in LaterTouching(n) :
                               \A l \in LaterTouching(n) : l <= k
                   IN  values[n] = EntryAfter(inbox[applied[k]], n)

\* C12 witness: a signal that arrived before the reply, the reply, and a
\* signal that arrived after it have been applied, and foo holds the value
\* of the last signal
C12_Witness ==
    /\ right_done
    /\ Len(applied) = 3
    /\ applied[2] = res["t1"].seq
    /\ inbox[applied[1]] = PropertiesChanged(ProxyInterface, {}, {"foo"})
    /\ inbox[applied[3]] = PropertiesChanged(ProxyInterface, { <<"foo", 2>> }, {})
    /\ values["foo"] = Entry(2)

\* the case of C13: the signal with foo = 2 arrived and was applied, then
\* the GetAll reply with foo = 1 and bar = 3, nothing else, and ready()
\* has returned Ok
SignalThenReply ==
    /\ ready_ret = "Ok"
    /\ right_done
    /\ Len(applied) = 2
    /\ applied[2] = res["t1"].seq
    /\ inbox[applied[1]] = PropertiesChanged(ProxyInterface, { <<"foo", 2>> }, {})
    /\ inbox[applied[2]] = GetAllReply(GetAllValues)

\* C13 as stated: in that case cached_property("foo") is the signal's 2 and
\* cached_property("bar") is 3.
C13_SignalValueKept ==
    SignalThenReply =>
       /\ cached_property("foo") = SomeValue(2)
       /\ cached_property("bar") = SomeValue(3)

\* C13: in that case the reply, applied after the signal, replaces the
\* signal's value: cached_property("foo") is the reply's 1 and
\* cached_property("bar") is 3.
C13_ReplyValueReplaces ==
    SignalThenReply =>
       /\ cached_property("foo") = SomeValue(1)
       /\ cached_property("bar") = SomeValue(3)

\* C13 witness: the case has happened
C13_Witness == SignalThenReply /\ values["bar"] = Entry(3)

\* C14: once ready() has returned Ok after a GetAll reply, a property of
\* the reply that no signal arrived after the reply has changed or
\* invalidated is returned by cached_property with the reply's value.
C14_GetAllValuesObservable ==
    (ready_ret = "Ok" /\ right_done) =>
       \A c \in inbox[res["t1"].seq].args.changed :
          LaterTouching(c[1]) = {} => cached_property(c[1]) = SomeValue(c[2])

\* C14 witness: ready() has returned Ok, a later signal has changed foo,
\* and bar is still the reply's
C14_Witness ==
    /\ ready_ret = "Ok" /\ right_done
    /\ LaterTouching("foo") # {}
    /\ LaterTouching("bar") = {}
    /\ cached_property("bar") = SomeValue(3)

\* C15 as stated: cached_property never panics; it returns Some(v) exactly
\* when the cache is started and has an entry for the name holding v, and
\* None otherwise.
C15_CachedPropertyTotal ==
    \A n \in PropNames :
       /\ cached_property(n).kind # "panic"
       /\ \A v \in 1..3 :
             cached_property(n) = SomeValue(v) <=>
                (cache_cfg = "yes" /\ cache_task # "none" /\ values[n] = Entry(v))

\* C16: getting the value of a stream item never deadlocks on the lock of
\* the cache and never panics.
C16_GetRawCompletes == get_pc \notin {"deadlock", "panic"}

\* the PropertiesChanged signals for the proxy's interface that touch the
\* stream's property and were received after the stream was created
LateUpdates ==
    {n \in 1..Len(inbox) :
        n > created_at /\ cache_accepts(inbox[n]) /\ Touches(inbox[n], prop_name)}

\* message n was broadcast while the cache task's signal stream existed
Delivered(n) ==
    /\ cache_task \notin {"none", "spawned"}
    /\ \E k \in (since["ps"] + 1)..Len(bq) : bq[k] = n

\* message n waits in the queue of the cache task's signal stream
Queued(n) == active["ps"] /\ \E k \in (pos["ps"] + 1)..Len(bq) : bq[k] = n

\* update_cache has run for message n, and notified the entry's event
Applied(n) == \E k \in 1..Len(applied) : applied[k] = n

\* the messages the cache task applied that changed or invalidated the
\* stream's property
TouchingApplied ==
    {k \in 1..Len(applied) : Touches(inbox[applied[k]], prop_name)}

\* the stream's property was updated after the stream was created or last
\* yielded an item
Dirty ==
    /\ prop_stream \in {"live", "polled"}
    /\ cache_cfg = "yes"
    /\ \E k \in TouchingApplied : k > yielded_at

Holders(e) == {u \in Users : upc[u] \in {"held", "queued"} /\ uexpr[u] = e}

AllDropped == \A u \in Users : upc[u] \in {"queued", "rm_call", "done", "failed"}

\* no expression is left in the map or at the bus, and each accepted
\* AddMatch has its RemoveMatch
Balanced ==
    \A e \in Exprs :
        signal_matches[e] = Vacant /\ bus_rules[e] = 0 /\ add_ok[e] = rm_sent[e]

RECURSIVE Recorded(_, _)
Recorded(k, n) ==
    IF k = 0 THEN FALSE
    ELSE IF name_log[k].name # n THEN Recorded(k - 1, n)
    ELSE IF name_log[k].op = "release" THEN FALSE
    ELSE name_log[k].ret = "Ok" \/ Recorded(k - 1, n)

Broadcast(n) == \E k \in 1..Len(bq) : bq[k] = n

\* message n was delivered to the stream of the dispatch task: the task has
\* taken it, or it waits in the queue of the task's stream
SeenByDispatcher(n) ==
    \E k \in (since["os"] + 1)..Len(bq) :
        bq[k] = n /\ (k <= pos["os"] \/ active["os"])

\* the messages received after the first RequestName call was sent
AfterRequest ==
    {n \in 1..Len(inbox) : request_sent_at # <<>> /\ n > request_sent_at[1]}

C24_BroadcastKeepsEverything ==
    /\ [](\A r \in Receivers : active[r] => Len(bq) - pos[r] <= MaxQueued)
    /\ [](/\ Len(bq) = Processed
          /\ \A i \in 1..Len(bq) : bq[i] = i)
    /\ [][BroadcastFull =>
            /\ bq' = bq
            /\ rxpc = "broadcast" => (inbox' = inbox /\ rxpc' = rxpc)]_vars
    /\ [][\A r \in Receivers :
            (active[r] /\ active'[r]) =>
               \/ pos'[r] = pos[r]
               \/ pos'[r] = pos[r] + 1 /\ pos[r] < Len(bq)]_vars

\* C24 witness: the user's stream was full, was drained by one message and
\* is full again, with the receiver task waiting in the broadcast send of
\* the fourth message
C24_Witness ==
    /\ active["u"]
    /\ Len(uGot) = 1
    /\ BroadcastFull
    /\ rxpc = "broadcast"
    /\ Len(inbox) = MaxRecv

(***************************************************************************)
(* Properties of Connection::new.                                          *)
(***************************************************************************)
\* C25: unique_name is set at most once, only on a bus connection and only
\* after the Hello call has resolved with its reply; a bus connection is
\* returned only with unique_name set; Connection::new fails, returning no
\* connection, exactly on a bus connection whose Hello resolved with an
\* error; a peer-to-peer connection is returned by the first step of
\* Connection::new with no call made and nothing sent.
C25_UniqueNameSetOnceAfterHello ==
    /\ [](unique_name_sets <= 1)
    /\ [](conn_state # "panicked")
    /\ []((unique_name # "") <=> (unique_name_sets = 1))
    /\ [](unique_name # "" =>
            /\ bus_conn
            /\ conn_state = "ready"
            /\ pc["t1"] = "done" /\ res["t1"].kind = "Ok")
    /\ [](~bus_conn => unique_name = "")
    /\ [](conn_state = "ready" /\ bus_conn => unique_name # "")
    /\ [](conn_state = "failed" =>
            /\ bus_conn
            /\ unique_name = ""
            /\ pc["t1"] = "done" /\ res["t1"].kind = "MethodError")
    /\ [](~bus_conn /\ conn_state = "ready" =>
            pc["t1"] = "idle" /\ out = <<>> /\ wire = <<>>)
    /\ [][conn_state = "authenticated" /\ ~bus_conn =>
            conn_state' \in {"authenticated", "ready"}]_vars
    /\ [][unique_name # "" => unique_name' = unique_name]_vars

\* C25 witness: a bus connection returned with its unique name, after the
\* Hello reply
C25_Witness ==
    /\ bus_conn
    /\ conn_state = "ready"
    /\ unique_name = ":1.1"
    /\ wire = <<1>>

(***************************************************************************)
(* Properties of the receiver task's error path.                           *)
(***************************************************************************)
\* C26: after a receive error the receiver task never stays blocked in the
\* report of the error: whenever it is sending an error to the error
\* channel it gets past the send and polls the socket again.
C26_ErrorReportNeverBlocks ==
    [](rxpc = "send_error" => <>(rxpc = "recv"))

\* C27: after a raw-connection I/O error the broadcast channel is closed
\* (which is what wakes the waiting consumers with end-of-stream) and the
\* receiver task polls the socket no more.
C27_IoErrorClosesChannels ==
    (rxerr = "Io") ~> [](BroadcastClosed /\ rxpc # "recv")

(***************************************************************************)
(* Properties of add_match and remove_match called in sequence.            *)
(***************************************************************************)
\* the add_match(e) calls that succeeded minus the remove_match(e) calls
\* that succeeded: the users whose add_match returned Ok and whose
\* remove_match has not returned Ok
Outstanding(e) ==
    Cardinality({u \in Users : upc[u] \in {"held", "rm_failed"} /\ uexpr[u] = e})

\* C28: between two calls the registry's count for an expression equals
\* the number of add_match calls minus the number of remove_match calls on
\* it that succeeded, the expression being absent when that number is 0;
\* and the bus holds a rule for exactly the expressions present.
C28_CountIsAddsMinusRemoves ==
    \A e \in Exprs :
       match_lock = "none" =>
          /\ signal_matches[e] = IF Outstanding(e) = 0 THEN Vacant
                                 ELSE Outstanding(e)
          /\ bus_rules[e] = IF Outstanding(e) = 0 THEN 0 ELSE 1

(***************************************************************************)
(* Properties of the reply callbacks of a scope.                           *)
(***************************************************************************)
\* C29: a reply callback is invoked at most once. Once the callback of a
\* dispatch_call has been started it is never started again; and when a
\* scope takes a message that is not a signal, it starts one future, for
\* the entry of the replies map under the message's reply_serial, which
\* has left the map when the future is started; if the map has no such
\* entry (none was registered, or an earlier message took it) it starts
\* nothing.
C29_ReplyCallbackAtMostOnce ==
    /\ [][\A t \in Tasks : cb[t] # 0 => cb'[t] = cb[t]]_vars
    /\ [][\A s \in Scopes :
            (active[s] /\ pos'[s] = pos[s] + 1 /\ Front(s).type # "Signal") =>
               LET E == {r \in replies[s] : r.serial = Front(s).reply_serial}
               IN  IF E = {} \/ ~alive[s]
                   THEN futs'[s] = futs[s] /\ replies'[s] = replies[s]
                   ELSE /\ Cardinality(E) = 1
                        /\ replies'[s] = replies[s] \ E
                        /\ Len(futs'[s]) = Len(futs[s]) + 1
                        /\ futs'[s][Len(futs'[s])].kind = "reply"
                        /\ futs'[s][Len(futs'[s])].key = Front(s).reply_serial
                        /\ futs'[s][Len(futs'[s])].seq = bq[pos[s] + 1]]_vars

\* C29 witness: the callback of the call was started by the first reply,
\* its future is complete, and the scope has taken a second message with
\* the same reply_serial and runs nothing
C29_Witness ==
    \E s \in Scopes :
       /\ alive[s] /\ tscope["t1"] = s
       /\ cb["t1"] # 0
       /\ cur[s] > cb["t1"]
       /\ inbox[cur[s]] = Reply("MethodReturn", ret["t1"])
       /\ inbox[cb["t1"]] = Reply("MethodReturn", ret["t1"])
       /\ futs[s] = <<>>

(***************************************************************************)
(* Properties of a SignalStream before its destination is resolved.        *)
(***************************************************************************)
\* C30: the SignalStream of a well-known destination has yielded no message
\* for as long as the reply to its GetNameOwner call has not been processed
\* (src_query is still Some).
C30_NothingBeforeOwnerReply ==
    (src_bus_name # "" /\ src_query.some) => yielded = <<>>

(***************************************************************************)
(* Properties of the expected sender of a SignalStream.                    *)
(***************************************************************************)
\* the serial of the stream's GetNameOwner call (0: none was sent)
QuerySerial ==
    IF \E i \in 1..Len(assigned) : assigned[i].task = "proxy"
    THEN assigned[CHOOSE i \in 1..Len(assigned) : assigned[i].task = "proxy"].val
    ELSE 0

\* message m is a signal of the stream's selection
Selected(m) ==
    /\ m.type = "Signal"
    /\ m.path = ProxyPath /\ m.interface = ProxyInterface
    /\ sig_member = "" \/ m.member = sig_member

\* message m is the bus's NameOwnerChanged for the stream's well-known name
OwnerChange(m) ==
    /\ src_bus_name # ""
    /\ m = NameOwnerChanged(Bus, Body(TRUE, src_bus_name, m.body.owner))

\* the owner in force once the first k messages the stream took have been
\* processed, and whether the GetNameOwner reply is still awaited: the
\* first reply to the query establishes the owner it carries, an owner
\* change for the stream's name the new owner, anything else nothing
RECURSIVE OwnerAfter(_)
OwnerAfter(k) ==
    IF k = 0
    THEN [owner |-> IF src_bus_name = "" THEN src_unique_name ELSE "",
          pending |-> src_bus_name # ""]
    ELSE LET prev == OwnerAfter(k - 1)
             m == taken[k]
         IN  IF prev.pending /\ m.type = "MethodReturn"
                             /\ m.reply_serial = QuerySerial
             THEN [owner |-> IF m.body.ok THEN m.body.owner ELSE prev.owner,
                   pending |-> FALSE]
             ELSE IF OwnerChange(m)
             THEN [owner |-> m.body.owner, pending |-> prev.pending]
             ELSE prev

\* what a stream yields of the first k messages when each signal is judged
\* against the owner in force when it arrived
RECURSIVE AcceptedUpTo(_)
AcceptedUpTo(k) ==
    IF k = 0 THEN <<>>
    ELSE AcceptedUpTo(k - 1) \o
         (IF Selected(taken[k]) /\ taken[k].sender = OwnerAfter(k - 1).owner
          THEN << [msg |-> taken[k], expected |-> OwnerAfter(k - 1).owner] >>
          ELSE <<>>)

\* C31: the expected sender is kept in lock-step with the messages: after
\* each message the stream has taken, src_unique_name is the owner that
\* the GetNameOwner reply and the owner changes for the stream's name
\* among the messages taken so far establish (a change for another name
\* establishes nothing), and the stream has yielded exactly the selected
\* signals whose sender was the owner in force when they arrived, each
\* judged against the owner established by the messages before it.
C31_OwnerInLockStep ==
    stream_state = "live" =>
       /\ src_unique_name = OwnerAfter(Len(taken)).owner
       /\ src_query.some = OwnerAfter(Len(taken)).pending
       /\ yielded = AcceptedUpTo(Len(taken))

\* C31 witness: after the reply named :1.1, a signal of :1.2 was rejected,
\* the name went to :1.2, and the next signal of :1.2 was yielded
C31_Witness ==
    /\ taken = << BusMsg("MethodReturn", 1, "", "", "", Bus, Body(TRUE, "", ":1.1")),
                  SignalFrom(":1.2", ProxyPath, ProxyInterface, "Sig"),
                  NameOwnerChanged(Bus, Body(TRUE, WellKnown, ":1.2")),
                  SignalFrom(":1.2", ProxyPath, ProxyInterface, "Sig") >>
    /\ Len(yielded) = 1
    /\ yielded[1].expected = ":1.2"

WatcherRefs == {u \in Watchers : upc[u] \in {"held", "add_call"}}

\* no destination_unique_name call on the proxy is in progress
CallsCompleted == \A u \in Watchers : dpc[u] \in {"idle", "done", "failed"}

\* C33: once the destination_unique_name calls on a proxy have completed,
\* the proxy holds one reference on the watcher expression if the watcher
\* is set and none otherwise, and the registry counts it; a call that
\* found the watcher set after its add_match has released its reference
\* without a RemoveMatch; a dropped proxy holds no reference, the one it
\* held being queued for removal once; and on a peer-to-peer connection or
\* for a unique name no watcher is set and no call touches the registry.
C33_OneWatcherReference ==
    /\ (CallsCompleted /\ ~proxy_dropped) =>
          /\ WatcherRefs = (IF dest_name_watcher = "" THEN {} ELSE {watcher_by})
          /\ dest_name_watcher # "" =>
                /\ upc[watcher_by] = "held"
                /\ signal_matches[WatchExpr] >= 1
                /\ bus_rules[WatchExpr] = 1
    /\ \A u \in Watchers :
          (dpc[u] = "done" /\ u # watcher_by /\ upc[u] # "idle") =>
                upc[u] = "done"
    /\ proxy_dropped =>
          /\ WatcherRefs = {}
          /\ dest_name_watcher = ""
          /\ watcher_by # "none" =>
                upc[watcher_by] \in {"queued", "rm_call", "done"}
    /\ (~bus_conn \/ dest_kind = "unique") =>
          /\ dest_name_watcher = "" /\ watcher_by = "none"
          /\ \A u \in Watchers : upc[u] = "idle"

\* C33 witness: both calls added the expression, one set the watcher, the
\* other released its reference, and the count is the proxy's one
C33_Witness ==
    /\ dpc["u1"] = "done" /\ dpc["u2"] = "done"
    /\ watcher_by = "u1"
    /\ upc["u1"] = "held" /\ upc["u2"] = "done"
    /\ upc["u3"] = "idle"
    /\ signal_matches[WatchExpr] = 1
    /\ ~proxy_dropped

(***************************************************************************)
(* Properties of the ready channel of a property cache.                    *)
(***************************************************************************)
\* the ready() calls that received the outcome from the channel
Received == {i \in 1..Len(ready_log) : ready_log[i].from = "recv"}

\* the messages the task has applied to the cache
AppliedSet == {applied[i] : i \in DOMAIN applied}

\* C34: the outcome of the population is sent to the ready channel once
\* and the channel is then closed: the channel never holds more than one
\* outcome and an outcome in it or taken from it means the channel is
\* closed; no ready() call returns before the GetAll outcome was applied
\* (or the call failed, and the task ended); at most one ready() call, the
\* first, receives the outcome, an Ok only when the reply was applied; and
\* every other call finds the channel closed and returns Ok(()).
C34_OutcomeOnceThenClosed ==
    /\ Len(ready_ch) + Cardinality(Received) <= 1
    /\ (ready_ch # <<>> \/ ready_log # <<>>) => ready_closed
    /\ ready_log # <<>> => (right_done \/ cache_task = "ended")
    /\ \A i \in 1..Len(ready_log) :
          /\ ready_log[i].from = "recv" =>
                /\ i = 1
                /\ ready_log[i].ret = "Ok" =>
                      /\ right_done
                      /\ res["t1"].seq \in AppliedSet
          /\ ready_log[i].from = "closed" => ready_log[i].ret = "Ok"
          /\ i > 1 => ready_log[i].from = "closed"

\* C34 witness: the first ready() call received the Ok the task sent after
\* it applied the reply, the second found the channel closed
C34_Witness ==
    /\ Len(ready_log) = 2
    /\ ready_log[1] = [ret |-> "Ok", from |-> "recv"]
    /\ ready_log[2] = [ret |-> "Ok", from |-> "closed"]
    /\ right_done

\* C34 witness of the error outcome: the first call received the error
C34_WitnessErr ==
    /\ Len(ready_log) = 2
    /\ ready_log[1] = [ret |-> "Err", from |-> "recv"]
    /\ ready_log[2] = [ret |-> "Ok", from |-> "closed"]

\* C35: once an add_match or remove_match call has returned (the mutex is
\* free), signal_matches maps no expression to the count 0.
C35_NoZeroCountEntry ==
    \A e \in Exprs : match_lock = "none" => signal_matches[e] # 0

(***************************************************************************)
(* Properties of the match rules of signal handlers.                       *)
(***************************************************************************)
\* the refcount of an expression, 0 when it is absent
RefCount(e) == IF signal_matches[e] = Vacant THEN 0 ELSE signal_matches[e]

\* the handlers registered with an expression, in any scope
HandlersWith(e) ==
    {<<s, i>> \in Scopes \X (1..MaxHandlers) :
        i <= Len(handlers[s]) /\ handlers[s][i].expr = e}

\* the callers whose handler is in the map of a scope
InMap(u) ==
    \E s \in Scopes : \E i \in 1..Len(handlers[s]) :
        /\ handlers[s][i].key = hcall[u].key
        /\ handlers[s][i].via = hcall[u].via
        /\ handlers[s][i].expr = hcall[u].expr

\* C36: on a bus connection the refcount of an expression is at every
\* moment at least the number of handlers registered with it in any scope;
\* a caller's handler is in the map exactly from the insert that follows
\* its successful add_match to its removal, and its reference is held all
\* that time; a failed add_match registers none; and off the bus the
\* handlers are registered and removed without a bus call.
C36_RefCountCoversHandlers ==
    /\ bus_conn =>
          \A e \in Exprs : RefCount(e) >= Cardinality(HandlersWith(e))
    /\ \A u \in Registrants :
          /\ (hpc[u] = "registered") <=> (hcall[u].key # 0 /\ InMap(u))
          /\ (bus_conn /\ hpc[u] = "registered") =>
                upc[u] = "held" /\ uexpr[u] = hcall[u].expr
          /\ hpc[u] = "failed" => ~InMap(u)
    /\ ~bus_conn =>
          /\ \A e \in Exprs : add_sent[e] = 0 /\ rm_sent[e] = 0
          /\ \A u \in Users : upc[u] = "idle"

\* C36 witness: on the bus two handlers with one expression are registered
\* in two scopes and the count is 2
C36_Witness ==
    /\ bus_conn
    /\ hpc["u1"] = "registered" /\ hpc["u2"] = "registered"
    /\ hcall["u1"].via = "h1" /\ hcall["u2"].via = "h2"
    /\ hcall["u1"].expr = "e1" /\ hcall["u2"].expr = "e1"
    /\ signal_matches["e1"] = 2
    /\ Cardinality(HandlersWith("e1")) = 2

\* C36 witness of the failure: an add_match failed and no handler was
\* registered
C36_WitnessFailed ==
    /\ bus_conn
    /\ hpc["u1"] = "failed"
    /\ handlers["s1"] = <<>>
    /\ signal_matches["e1"] = Vacant

\* C36 witness off the bus: a handler registered without a bus call
C36_WitnessPeer ==
    /\ ~bus_conn
    /\ hpc["u1"] = "registered"
    /\ Len(handlers["s1"]) = 1

(***************************************************************************)
(* Properties of a dispatch_call that fails.                               *)
(***************************************************************************)
\* C37: a dispatch_call that returned an error has left no reply callback
\* of its own in the replies map of its scope.
C37_FailedCallLeavesNoCallback ==
    \A t \in Tasks :
       (op[t] = "dispatch" /\ pc[t] = "done" /\ res[t].kind \in {"Io", "Unsupported"}) =>
          ~\E r \in replies[tscope[t]] : r.task = t

(***************************************************************************)
(* Properties of a receive_signals call that fails.                        *)
(***************************************************************************)
\* C38: a receive_signals call that returned an error holds no reference
\* on the stream's expression.
C38_FailedSubscriptionHoldsNothing ==
    \A u \in Registrants :
       spc[u] \in {"add_failed", "send_failed"} => upc[u] # "held"

(***************************************************************************)
(* Properties of the dispatch task after a receive error.                  *)
(***************************************************************************)
\* C39: the dispatch task, once started, is running with its stream on the
\* broadcast for as long as the connection is alive and the channel open,
\* also after its stream has yielded an error item.
C39_DispatchTaskKeepsRunning ==
    (os_task # "none" /\ ~BroadcastClosed) =>
       (os_task = "running" /\ active["os"])

(***************************************************************************)
(* Termination of the population of a property cache.                      *)
(***************************************************************************)
\* C40: once the GetAll call is on the wire, where the peer answers it, a
\* ready() call returns in the end, however many signals the peer sent
\* after the task subscribed.
C40_PopulationTerminates == (wire # <<>>) ~> (ready_log # <<>>)

====
